---- MODULE Spec2Model ----
(***************************************************************************)
(* Model of the acquisition-and-reconciliation pipeline of AI-Real-Estate: *)
(* the rate limiter, the primary (PVP) and the secondary (Fallcoaste)      *)
(* ingestors driven by run_unified_scraper, the fuzzy matcher and merger   *)
(* of matching_utils.py / matcher.py, and the ranking engine.              *)
(*                                                                         *)
(* Time is counted in whole seconds.  The rate limiter only ever reads the *)
(* difference time.time() - last_request_time[domain] and compares it with *)
(* delay_ms / 1000, so the model keeps that difference (an "age"), and     *)
(* saturates it at the interval: every larger age behaves the same.        *)
(*                                                                         *)
(* Text is a sequence of one-character strings; an absent (None) or empty  *)
(* value of an optional field is the empty sequence, a present one a       *)
(* one-element sequence (numbers) or the text / list itself.               *)
(* Scores of the matcher are exact rationals [num, den]; the code computes *)
(* them in binary floating point.                                          *)
(***************************************************************************)
EXTENDS Integers, Sequences, FiniteSets, TLC

VARIABLES
    pc,                  \* position of run_unified_scraper / of the running ingestor
    last_request_age,    \* per domain: seconds since RateLimiter.last_request_time[domain]
    last_issue_age,      \* per domain: seconds since the last HTTP request was issued (-1: none yet)
    last_gap,            \* per domain: seconds between the latest request and the one before it
    pvp_max_pages,       \* PVPScraper.run(max_pages)
    pvp_page,            \* loop variable page of PVPScraper.run
    pvp_failures,        \* consecutive_failures of PVPScraper.run
    request_count,       \* PVPScraper.request_count
    pvp_total,           \* total_auctions of PVPScraper.run
    pvp_reason,          \* the event that ended PVPScraper.run
    pvp_log,             \* outcome of every page iteration of PVPScraper.run, in order
    pvp_got403,          \* a 403 response has been received in this PVP run
    pvp_published,       \* external_ids handed to publish_auction_data by the PVP run
    pvp_requests,        \* every POST of the PVP run, in order: page, status, content, auctions scraped
    pvp_scraped,         \* external_ids of the auctions of the latest page, in order
    pvp_handed,          \* those of them handed to publish_auction_data, in order
    pvp_publish_ok,      \* calls of publish_auction_data that returned True in the PVP run
    pvp_publish_failed,  \* calls of publish_auction_data that returned False in the PVP run
    fc_max_pages,        \* FallcoasteScraper.run(max_pages)
    pvp_auctions,        \* the primary set fetched by fetch_pvp_auctions_from_backend
    fc_page,             \* loop variable page of FallcoasteScraper.run
    fc_attempt,          \* loop variable attempt of fetch_page
    fc_failures,         \* consecutive_failures of FallcoasteScraper.run
    fc_last_request,     \* the latest HTTP request of the page in progress: <<page, kind>>
    fc_listing,          \* listing entries of the fetched page not yet given their detail fetch
    fc_auctions,         \* auctions parsed from the current page (parse_auction_list)
    fc_total,            \* total_auctions of FallcoasteScraper.run
    fc_enrichments,      \* total_enrichments of FallcoasteScraper.run
    fc_reason,           \* the event that ended FallcoasteScraper.run
    fc_log,              \* outcome of every page iteration of FallcoasteScraper.run
    fc_results,          \* per auction of the page just processed: the auction and what was published for it
    fc_published_ids,    \* external_id of every record handed to publish_auction_data by the secondary run
    fc_merged,           \* external_ids of the primary records merged into at least once in this run
    fc_remerged,         \* external_ids of the primary records merged into more than once in this run
    m_primary,           \* matcher inputs: the primary set
    m_candidate,         \* matcher inputs: the secondary candidate
    m_min_score,         \* matcher inputs: min_score (percent)
    m_result,            \* result of find_best_match, <<>> for None
    m_accepted,          \* per threshold tried: was the candidate accepted
    m_merged,            \* result of enrich_pvp_auction, <<>> before the call
    m_merged2,           \* result of matcher.py's enrich_pvp_auction
    r_data,              \* ranking input record
    r_weights,           \* WEIGHTS in use (percent)
    r_result,            \* result of calculate_ai_score, <<>> before the call
    t_pc,                \* per fetch path calling RateLimiter.wait: where the call stands
    t_sleep,             \* per fetch path: seconds left of the asyncio.sleep inside RateLimiter.wait
    cycle_waited,        \* seconds run_unified_scraper has slept between the two sources
    stop_signal,         \* the task that runs the scraper has been cancelled
    p_text,              \* a price text given to the price parsers
    p_result,            \* what each price parser returned for it, <<>> before the calls
    n_input,             \* the auction dictionary posted to /process
    n_result,            \* what process_auction scored and saved for it, <<>> before the call
    ws_registry,         \* active_connections: user_id -> set of WebSocket connections
    ws_handler,          \* per websocket: where handle_websocket_connection stands, and its user_id
    ws_broadcast,        \* per call of broadcast_to_user: where it stands, its iterator and its sets
    pref_table,          \* the search_preferences table: id -> row
    pref_next_id,        \* the next value of the id sequence of search_preferences
    pref_response        \* the latest request to the preferences API and its answer, <<>> before any

timeVars == <<last_request_age, last_issue_age, last_gap>>
pvpVars == <<pvp_max_pages, pvp_page, pvp_failures, request_count, pvp_total,
             pvp_reason, pvp_log, pvp_got403, pvp_published, pvp_requests, pvp_scraped,
             pvp_handed, pvp_publish_ok, pvp_publish_failed>>
fcVars == <<fc_max_pages, pvp_auctions, fc_page, fc_attempt, fc_failures, fc_last_request,
            fc_listing, fc_auctions, fc_total, fc_enrichments, fc_reason, fc_log,
            fc_results, fc_published_ids, fc_merged, fc_remerged>>
matchVars == <<m_primary, m_candidate, m_min_score, m_result, m_accepted, m_merged, m_merged2>>
rankVars == <<r_data, r_weights, r_result>>
limVars == <<t_pc, t_sleep>>
cycleVars == <<cycle_waited, stop_signal>>
nlpVars == <<p_text, p_result, n_input, n_result>>
wsVars == <<ws_registry, ws_handler, ws_broadcast>>
prefVars == <<pref_table, pref_next_id, pref_response>>
vars == <<pc, timeVars, pvpVars, fcVars, matchVars, rankVars, limVars, cycleVars, nlpVars,
          wsVars, prefVars>>

----------------------------------------------------------------------------
(* Bounds of the model *)

MaxPvpPages == 3
MaxFcPages == 4
MaxPrimaries == 2
MaxCyclePages == 1
\* rows the preferences table can hold
MaxPrefs == 2

----------------------------------------------------------------------------
(* Program constants *)

SCRAPER_DELAY_MS == 8000
SCRAPER_MIN_DELAY_MS == 5000
SCRAPER_MAX_DELAY_MS == 15000
SCRAPER_PAUSE_AFTER_ERROR == 60
pvp_max_consecutive_failures == 2
fc_max_consecutive_failures == 3
max_retries == 5
base_backoff == 2
REQUEST_TIMEOUT == 60
SOURCE_COOLDOWN == 10

PVP == "https://pvp.giustizia.it"
FALLCOASTE == "https://www.fallcoaste.it"
Domains == {PVP, FALLCOASTE}

----------------------------------------------------------------------------
(* Small helpers *)

Min(a, b) == IF a <= b THEN a ELSE b
Max(a, b) == IF a >= b THEN a ELSE b
Abs(a) == IF a >= 0 THEN a ELSE 0 - a

RECURSIVE Pow2(_)
Pow2(n) == IF n = 0 THEN 1 ELSE 2 * Pow2(n - 1)

----------------------------------------------------------------------------
(* rate_limiter.py *)

\* min_interval = self.delay_ms / 1000.0
MinInterval == SCRAPER_DELAY_MS \div 1000

\* The clock: [stamp |-> age of last_request_time per domain,
\*             issue |-> age of the last issued request per domain (-1: none),
\*             gap   |-> gap between the latest two requests per domain]
Clock == [stamp |-> last_request_age, issue |-> last_issue_age, gap |-> last_gap]

Older(ages, s) ==
    [d \in Domains |-> IF ages[d] < 0 THEN ages[d] ELSE Min(ages[d] + s, MinInterval)]

\* asyncio.sleep(s): every age grows by s (saturated at the interval)
Sleep(c, s) == [c EXCEPT !.stamp = Older(c.stamp, s), !.issue = Older(c.issue, s)]

\* RateLimiter.wait: the time it sleeps
WaitTime(age) == IF age < MinInterval THEN MinInterval - age ELSE 0

\* RateLimiter.wait(domain): sleep if needed, then last_request_time[domain] = time.time()
RateLimiterWait(c, domain) ==
    LET slept == Sleep(c, WaitTime(c.stamp[domain]))
    IN [slept EXCEPT !.stamp[domain] = 0]

\* session.get / session.post: a request to domain goes out now
IssueRequest(c, domain) ==
    [c EXCEPT !.issue[domain] = 0,
              !.gap[domain] = IF c.issue[domain] < 0 THEN @ ELSE c.issue[domain]]

SetClock(c) ==
    /\ last_request_age' = c.stamp
    /\ last_issue_age' = c.issue
    /\ last_gap' = c.gap

----------------------------------------------------------------------------
(* rate_limiter.py called from two fetch paths at once: coroutines of one
   event loop, which change hands only at an await *)

\* the fetch paths that share one RateLimiter and one domain: fetch_page and
\* fetch_detail_page of the secondary source
FetchPaths == {"fetch_page", "fetch_detail_page"}

\* wait up to its await (no lock is taken: a caller enters whatever the
\* others do): current_time, last_time and wait_time are computed;
\* with nothing to wait for the stamp is written and the request goes out in
\* the same turn of the loop; otherwise the caller is put to sleep
LimCall(t) ==
    /\ pc = "limiter"
    /\ t_pc[t] = "idle"
    /\ IF WaitTime(last_request_age[FALLCOASTE]) = 0
       THEN /\ SetClock(IssueRequest(RateLimiterWait(Clock, FALLCOASTE), FALLCOASTE))
            /\ t_pc' = [t_pc EXCEPT ![t] = "fetching"]
            /\ UNCHANGED t_sleep
       ELSE /\ t_pc' = [t_pc EXCEPT ![t] = "sleeping"]
            /\ t_sleep' = [t_sleep EXCEPT ![t] = WaitTime(last_request_age[FALLCOASTE])]
            /\ UNCHANGED timeVars
    /\ UNCHANGED <<pc, pvpVars, fcVars, matchVars, rankVars, cycleVars, nlpVars,
                   wsVars, prefVars>>

\* a second goes by while no sleeper is due
LimTick ==
    /\ pc = "limiter"
    /\ \A t \in FetchPaths : t_pc[t] = "sleeping" => t_sleep[t] > 0
    /\ SetClock(Sleep(Clock, 1))
    /\ t_sleep' = [t \in FetchPaths |-> IF t_pc[t] = "sleeping" THEN t_sleep[t] - 1 ELSE 0]
    /\ UNCHANGED <<pc, t_pc, pvpVars, fcVars, matchVars, rankVars, cycleVars, nlpVars,
                   wsVars, prefVars>>

\* the sleep of wait is over: last_request_time[domain] = time.time(), wait
\* returns and the caller issues its request
LimWake(t) ==
    /\ pc = "limiter"
    /\ t_pc[t] = "sleeping"
    /\ t_sleep[t] = 0
    /\ t_pc' = [t_pc EXCEPT ![t] = "fetching"]
    /\ SetClock(IssueRequest([Clock EXCEPT !.stamp[FALLCOASTE] = 0], FALLCOASTE))
    /\ UNCHANGED <<pc, t_sleep, pvpVars, fcVars, matchVars, rankVars, cycleVars, nlpVars,
                   wsVars, prefVars>>

\* the response is in: the fetch path is free to make its next call
LimResponse(t) ==
    /\ pc = "limiter"
    /\ t_pc[t] = "fetching"
    /\ t_pc' = [t_pc EXCEPT ![t] = "idle"]
    /\ UNCHANGED <<pc, timeVars, t_sleep, pvpVars, fcVars, matchVars, rankVars, cycleVars, nlpVars,
                   wsVars, prefVars>>

----------------------------------------------------------------------------
(* Text: sequences over a small alphabet with a capital letter and a blank *)

Chars == {"a", "b", "r", "A", " "}

Lower(c) == IF c = "A" THEN "a" ELSE c

\* str.lower()
LowerStr(s) == [i \in 1..Len(s) |-> Lower(s[i])]

\* " ".join(s.split()): blanks at both ends dropped, runs of blanks collapsed
RECURSIVE Collapse(_, _)
Collapse(s, prevBlank) ==
    IF s = <<>> THEN <<>>
    ELSE IF Head(s) = " "
         THEN IF prevBlank THEN Collapse(Tail(s), TRUE)
              ELSE <<" ">> \o Collapse(Tail(s), TRUE)
         ELSE <<Head(s)>> \o Collapse(Tail(s), FALSE)

DropLastBlank(s) ==
    IF s # <<>> /\ s[Len(s)] = " " THEN SubSeq(s, 1, Len(s) - 1) ELSE s

\* matching_utils.normalize_string
normalize_string(s) ==
    IF s = <<>> THEN <<>> ELSE DropLastBlank(Collapse(LowerStr(s), TRUE))

----------------------------------------------------------------------------
(* difflib.SequenceMatcher(None, a, b).ratio(), as matching_utils and matcher use it *)

MinOf(S) == CHOOSE x \in S : \A y \in S : x <= y
MaxOf(S) == CHOOSE x \in S : \A y \in S : y <= x

\* length of the longest block common to a and b
LongestLen(a, b) ==
    MaxOf({k \in 0..Min(Len(a), Len(b)) :
              k = 0 \/ \E i \in 1..(Len(a) - k + 1), j \in 1..(Len(b) - k + 1) :
                          SubSeq(a, i, i + k - 1) = SubSeq(b, j, j + k - 1)})

\* the places where a and b have a common block of length k
CommonStarts(a, b, k) ==
    {p \in (1..(Len(a) - k + 1)) \X (1..(Len(b) - k + 1)) :
        SubSeq(a, p[1], p[1] + k - 1) = SubSeq(b, p[2], p[2] + k - 1)}

\* of the blocks that start at i in a, the earliest in b
BlockAt(starts, i, k) ==
    [i |-> i, j |-> MinOf({p[2] : p \in {q \in starts : q[1] = i}}), k |-> k]

\* find_longest_match: the longest block, earliest in a, then earliest in b
LongestMatch(a, b) ==
    BlockAt(CommonStarts(a, b, LongestLen(a, b)),
            MinOf({p[1] : p \in CommonStarts(a, b, LongestLen(a, b))}),
            LongestLen(a, b))

\* sum of the sizes of get_matching_blocks()
RECURSIVE MatchingChars(_, _)
\* the block m, and the matching blocks to its left and to its right
MatchingAround(a, b, m) ==
    IF m.k = 0 THEN 0
    ELSE m.k + MatchingChars(SubSeq(a, 1, m.i - 1), SubSeq(b, 1, m.j - 1))
             + MatchingChars(SubSeq(a, m.i + m.k, Len(a)), SubSeq(b, m.j + m.k, Len(b)))

MatchingChars(a, b) ==
    IF a = <<>> \/ b = <<>> THEN 0 ELSE MatchingAround(a, b, LongestMatch(a, b))

\* ratio() = 2.0 * matches / (len(a) + len(b)), as an exact fraction
Ratio(a, b) == [num |-> 2 * MatchingChars(a, b), den |-> Len(a) + Len(b)]

----------------------------------------------------------------------------
(* Exact fractions *)

Frac(n, d) == [num |-> n, den |-> d]
FracAdd(x, y) == [num |-> x.num * y.den + y.num * x.den, den |-> x.den * y.den]
FracScale(x, w) == [num |-> x.num * w, den |-> x.den]
FracLt(x, y) == x.num * y.den < y.num * x.den
FracLeq(x, y) == x.num * y.den <= y.num * x.den
FracEq(x, y) == x.num * y.den = y.num * x.den
\* a percentage as a fraction
Pct(p) == Frac(p, 100)


----------------------------------------------------------------------------
(* Dates: a date text is [fmt, day, tod] with fmt the layout it is written  *)
(* in ("" for an empty text, "text" for free text), day the day number and  *)
(* tod the minute of the day                                                *)

NoDate == [fmt |-> "", day |-> 0, tod |-> 0]
MinutesPerDay == 1440

\* matching_utils.parse_date: <<>> for None, else <<minute number>>
parse_date(d) ==
    IF d.fmt \in {"%Y-%m-%d", "%d/%m/%Y", "%d-%m-%Y", "%Y-%m-%dT%H:%M:%S", "%d/%m/%Y %H:%M"}
    THEN <<d.day * MinutesPerDay + d.tod>>
    ELSE <<>>

\* (date1 - date2).days: timedelta.days rounds towards minus infinity
DaysBetween(m1, m2) == (m1 - m2) \div MinutesPerDay

\* matching_utils.dates_match
dates_match(date1_str, date2_str, tolerance_days) ==
    LET date1 == parse_date(date1_str)
        date2 == parse_date(date2_str)
    IN IF date1 = <<>> \/ date2 = <<>> THEN FALSE
       ELSE Abs(DaysBetween(date1[1], date2[1])) <= tolerance_days

\* matching_utils.prices_match, tolerance in percent
prices_match(price1, price2, tolerance_percent) ==
    IF price1 = <<>> \/ price2 = <<>> THEN FALSE
    ELSE IF price1[1] = 0 \/ price2[1] = 0 THEN FALSE
    ELSE Abs(price1[1] - price2[1]) * 100 <= tolerance_percent * Max(price1[1], price2[1])

\* a ratio that takes a missing text for an equal one
RatioOrZero_one(s1_norm, s2_norm) ==
    IF s1_norm = <<>> \/ s2_norm = <<>> THEN Frac(1, 1) ELSE Ratio(s1_norm, s2_norm)

\* the ratio of two normalized texts, 0.0 when one of them is empty
RatioOrZero(s1_norm, s2_norm) ==
    IF s1_norm = <<>> \/ s2_norm = <<>> THEN Frac(0, 1) ELSE Ratio(s1_norm, s2_norm)

\* matching_utils.similarity_ratio
similarity_ratio(s1, s2) == RatioOrZero(normalize_string(s1), normalize_string(s2))

\* the date part of calculate_match_score, in percent of the score: all of
\* the 25 when dates_match within 7 days, nothing otherwise
DateCredit(pvp_date, fallcoaste_date) ==
    IF dates_match(pvp_date, fallcoaste_date, 7) THEN Frac(25, 1) ELSE Frac(0, 1)

\* the price part of calculate_match_score, in percent of the score
PriceCredit(pvp_price, fallcoaste_price) ==
    IF prices_match(pvp_price, fallcoaste_price, 5) THEN Frac(20, 1) ELSE Frac(0, 1)

\* scores['date'] of matcher.match_auction, in tenths: 1.0 for the same day,
\* 0.7 within 7 days, 0.4 within 30, 0.0 beyond and for a date that does not parse
matcher_date_score(pvp_date, fallcoaste_date) ==
    LET date1 == parse_date(pvp_date)
        date2 == parse_date(fallcoaste_date)
    IN IF date1 = <<>> \/ date2 = <<>> THEN 0
       ELSE IF Abs(DaysBetween(date1[1], date2[1])) = 0 THEN 10
       ELSE IF Abs(DaysBetween(date1[1], date2[1])) <= 7 THEN 7
       ELSE IF Abs(DaysBetween(date1[1], date2[1])) <= 30 THEN 4
       ELSE 0

\* a sum of percentages as a fraction of 1
PerCent(x) == Frac(x.num, x.den * 100)

\* a score that goes by the identifier of the primary record the candidate names
calculate_match_score_byid(pvp_auction, fallcoaste_auction) ==
    IF fallcoaste_auction.pvp_id = <<pvp_auction.external_id>> THEN Frac(1, 1) ELSE Frac(0, 1)

\* matching_utils.calculate_match_score, the score as a fraction of 1
calculate_match_score(pvp_auction, fallcoaste_auction) ==
    PerCent(
      FracAdd(
        FracAdd(
          FracAdd(
            FracScale(similarity_ratio(pvp_auction.address \o <<" ">> \o pvp_auction.city,
                                       fallcoaste_auction.address), 30),
            FracScale(similarity_ratio(pvp_auction.court, fallcoaste_auction.court), 25)),
          DateCredit(pvp_auction.auction_date, fallcoaste_auction.auction_date)),
        PriceCredit(pvp_auction.base_price, fallcoaste_auction.base_price)))

\* the loop of find_best_match from index i on
RECURSIVE BestFrom(_, _, _, _, _, _)
\* one iteration, with the score of auctions[i]
BestStep(fallcoaste_auction, auctions, min_score, i, best_match, best_score, score) ==
    IF FracLt(best_score, score) /\ FracLeq(min_score, score)
    THEN BestFrom(fallcoaste_auction, auctions, min_score, i + 1, <<auctions[i]>>, score)
    ELSE BestFrom(fallcoaste_auction, auctions, min_score, i + 1, best_match, best_score)

BestFrom(fallcoaste_auction, auctions, min_score, i, best_match, best_score) ==
    IF i > Len(auctions) THEN <<best_match, best_score>>
    ELSE BestStep(fallcoaste_auction, auctions, min_score, i, best_match, best_score,
                  calculate_match_score(auctions[i], fallcoaste_auction))

\* a find_best_match that accepts the scores below the threshold instead
find_best_match_below(fallcoaste_auction, auctions, min_score) ==
    LET above == SelectSeq(auctions,
                     LAMBDA a : FracLt(calculate_match_score(a, fallcoaste_auction), min_score))
    IN IF above = <<>> THEN <<>>
       ELSE <<[match |-> above[1], score |-> calculate_match_score(above[1], fallcoaste_auction)]>>

\* a find_best_match that returns the first record at or above the threshold
find_best_match_first(fallcoaste_auction, auctions, min_score) ==
    LET above == SelectSeq(auctions,
                     LAMBDA a : FracLeq(min_score, calculate_match_score(a, fallcoaste_auction))
                                /\ FracLt(Frac(0, 1), calculate_match_score(a, fallcoaste_auction)))
    IN IF above = <<>> THEN <<>>
       ELSE <<[match |-> above[1], score |-> calculate_match_score(above[1], fallcoaste_auction)]>>

\* the return value of find_best_match for the outcome of its loop
BestResult(best) ==
    IF best[1] # <<>> THEN <<[match |-> best[1][1], score |-> best[2]]>> ELSE <<>>

\* matching_utils.find_best_match: <<>> for None, else <<[match, score]>>
find_best_match(fallcoaste_auction, auctions, min_score) ==
    BestResult(BestFrom(fallcoaste_auction, auctions, min_score, 1, <<>>, Frac(0, 1)))

----------------------------------------------------------------------------
(* Merge *)

\* Python truthiness of an optional number (None and 0 are false)
Truthy(v) == v # <<>> /\ v # <<0>>

\* Python truthiness of a list (None and [] are false)
NonEmpty(v) == v # <<>>

NoMeta == [enriched_from_fallcoaste |-> FALSE, enrichment_score |-> <<>>,
           fallcoaste_url |-> <<>>, fallcoaste_details |-> <<>>]

\* an enrich_pvp_auction that takes the coordinates as soon as the candidate has a latitude
enrich_pvp_auction_latonly(pvp_auction, fallcoaste_auction, match_score) ==
    LET coords == (~Truthy(pvp_auction.latitude) \/ ~Truthy(pvp_auction.longitude))
                  /\ Truthy(fallcoaste_auction.latitude)
    IN [pvp_auction EXCEPT
          !.meta = [enriched_from_fallcoaste |-> TRUE,
                    enrichment_score |-> <<match_score>>,
                    fallcoaste_url |-> fallcoaste_auction.url,
                    fallcoaste_details |-> <<fallcoaste_auction.details>>],
          !.photos = IF ~NonEmpty(@) /\ NonEmpty(fallcoaste_auction.photos)
                     THEN fallcoaste_auction.photos ELSE @,
          !.floor_plans = IF ~NonEmpty(@) /\ NonEmpty(fallcoaste_auction.floor_plans)
                          THEN fallcoaste_auction.floor_plans ELSE @,
          !.latitude = IF coords THEN fallcoaste_auction.latitude ELSE @,
          !.longitude = IF coords THEN fallcoaste_auction.longitude ELSE @,
          !.documents = IF ~NonEmpty(@) /\ NonEmpty(fallcoaste_auction.documents)
                        THEN fallcoaste_auction.documents ELSE @]

\* matching_utils.enrich_pvp_auction
enrich_pvp_auction(pvp_auction, fallcoaste_auction, match_score) ==
    LET coords == (~Truthy(pvp_auction.latitude) \/ ~Truthy(pvp_auction.longitude))
                  /\ Truthy(fallcoaste_auction.latitude) /\ Truthy(fallcoaste_auction.longitude)
    IN [pvp_auction EXCEPT
          !.meta = [enriched_from_fallcoaste |-> TRUE,
                    enrichment_score |-> <<match_score>>,
                    fallcoaste_url |-> fallcoaste_auction.url,
                    fallcoaste_details |-> <<fallcoaste_auction.details>>],
          !.photos = IF ~NonEmpty(@) /\ NonEmpty(fallcoaste_auction.photos)
                     THEN fallcoaste_auction.photos ELSE @,
          !.floor_plans = IF ~NonEmpty(@) /\ NonEmpty(fallcoaste_auction.floor_plans)
                          THEN fallcoaste_auction.floor_plans ELSE @,
          !.latitude = IF coords THEN fallcoaste_auction.latitude ELSE @,
          !.longitude = IF coords THEN fallcoaste_auction.longitude ELSE @,
          !.documents = IF ~NonEmpty(@) /\ NonEmpty(fallcoaste_auction.documents)
                        THEN fallcoaste_auction.documents ELSE @]

\* an enrich_pvp_auction that writes into the record it was given
MergeArgument_alias(pvp_auction, enriched) == enriched

\* enriched = pvp_auction.copy(): the assignments of enrich_pvp_auction go to
\* the copy, so the record that was passed is after the call as before it
MergeArgument(pvp_auction, enriched) == pvp_auction

\* matcher.enrich_pvp_auction (the variant of matcher.py)
matcher_enrich_pvp_auction(pvp_auction, fallcoaste_auction) ==
    LET coords == ~Truthy(pvp_auction.latitude) /\ Truthy(fallcoaste_auction.latitude)
    IN [pvp_auction EXCEPT
          !.latitude = IF coords THEN fallcoaste_auction.latitude ELSE @,
          !.longitude = IF coords THEN fallcoaste_auction.longitude ELSE @,
          !.photos = IF NonEmpty(fallcoaste_auction.photos) THEN fallcoaste_auction.photos ELSE @,
          !.floor_plans = IF NonEmpty(fallcoaste_auction.floor_plans)
                          THEN fallcoaste_auction.floor_plans ELSE @,
          !.documents = IF NonEmpty(fallcoaste_auction.documents)
                        THEN fallcoaste_auction.documents ELSE @,
          !.meta = [@ EXCEPT !.fallcoaste_url = fallcoaste_auction.url,
                             !.fallcoaste_details = <<fallcoaste_auction.external_id>>]]


----------------------------------------------------------------------------
(* pvp_scraper.py *)

\* a JSON value of a provider item: a number, a string (a sequence of
\* characters), null, or no such key
JNum(n) == [type |-> "number", num |-> n, str |-> <<>>]
JStr(s) == [type |-> "string", num |-> 0, str |-> s]
JNull == [type |-> "null", num |-> 0, str |-> <<>>]
JAbsent == [type |-> "absent", num |-> 0, str |-> <<>>]
\* a number written with a fraction, which json.loads reads as a float: its
\* whole part and the digits of its fraction
JFloat(whole, frac) == [type |-> "float", num |-> whole, str |-> frac]

\* bool(v) of a JSON value; item.get(key) of a missing key is None
JsonTruthy(v) ==
    \/ v.type = "number" /\ v.num # 0
    \/ v.type = "float" /\ (v.num # 0 \/ \E i \in 1..Len(v.str) : v.str[i] # "0")
    \/ v.type = "string" /\ v.str # <<>>

Digits == <<"0", "1", "2", "3", "4", "5", "6", "7", "8", "9">>
IsDigit(c) == \E d \in 1..Len(Digits) : Digits[d] = c
DigitValue(c) == (CHOOSE d \in 1..Len(Digits) : Digits[d] = c) - 1

RECURSIVE NumeralValue(_)
NumeralValue(s) ==
    IF s = <<>> THEN 0 ELSE 10 * NumeralValue(SubSeq(s, 1, Len(s) - 1)) + DigitValue(s[Len(s)])

\* int(v) and float(v) succeed on a number and on a string of digits; any
\* other text raises ValueError (whole amounts only)
Parses(v) ==
    \/ v.type \in {"number", "float"}
    \/ v.type = "string" /\ v.str # <<>> /\ \A i \in 1..Len(v.str) : IsDigit(v.str[i])
Parsed(v) == IF v.type \in {"number", "float"} THEN v.num ELSE NumeralValue(v.str)

\* the decimal digits of n
RECURSIVE DigitsOf(_)
DigitsOf(n) ==
    IF n < 10 THEN <<Digits[n + 1]>> ELSE Append(DigitsOf(n \div 10), Digits[(n % 10) + 1])

RECURSIVE StripZeros(_)
StripZeros(ds) ==
    IF ds # <<>> /\ ds[Len(ds)] = "0" THEN StripZeros(SubSeq(ds, 1, Len(ds) - 1)) ELSE ds

RECURSIVE Join(_)
Join(s) == IF s = <<>> THEN "" ELSE s[1] \o Join(Tail(s))

\* provider items of the primary API
PvpItem(id, prezzoBaseAsta, procedura) ==
    [id |-> id, descLotto |-> JAbsent, prezzoBaseAsta |-> prezzoBaseAsta, procedura |-> procedura]
\* an item with its description
PvpLot(id, descLotto, prezzoBaseAsta) ==
    [id |-> id, descLotto |-> JStr(descLotto), prezzoBaseAsta |-> prezzoBaseAsta,
     procedura |-> JAbsent]
PvpItem1 == PvpItem(JNum(101), JNum(100), JStr(<<"2">>))
\* no price, a round that is not a number
PvpItem2 == PvpItem(JNum(102), JAbsent, JStr(<<"b", "i", "s">>))
PvpItemNoId == PvpItem(JAbsent, JNum(100), JAbsent)
PvpItemEmptyId == PvpItem(JStr(<<>>), JNum(100), JAbsent)
PvpItemNullId == PvpItem(JNull, JNum(100), JAbsent)
\* a price written the Italian way
PvpItemTextPrice == PvpItem(JNum(105), JStr(<<"1", "0", "0", ",", "5">>), JNum(1))

\* the content lists a page of the primary API may carry
PvpContents ==
    {<<>>, <<PvpItem1>>, <<PvpItem1, PvpItem2>>, <<PvpItemNoId, PvpItemEmptyId>>,
     <<PvpItemNullId>>, <<PvpItemTextPrice, PvpItem1>>}

\* what the primary API may answer to one POST
PvpResponses ==
    [status : {200}, content : PvpContents]
      \cup [status : {403, 429, 500}, content : {<<>>}]
      \cup [status : {0}, content : {<<>>}]       \* no response: timeout, connection error

\* str(item.get('id', ''))
PvpExternalId(item) ==
    IF item.id.type = "absent" THEN ""
    ELSE IF item.id.type = "null" THEN "None"
    ELSE IF item.id.type = "number" THEN ToString(item.id.num)
    ELSE Join(item.id.str)

\* auction_round: int(procedura), None when procedura is falsy or int raises
PvpAuctionRound(procedura) ==
    IF JsonTruthy(procedura) /\ Parses(procedura) THEN <<Parsed(procedura)>> ELSE <<>>

\* float(item.get('prezzoBaseAsta', 0)) if item.get('prezzoBaseAsta') else None
\* raises ValueError on a text that is not a number
PvpBasePriceRaises(item) == JsonTruthy(item.prezzoBaseAsta) /\ ~Parses(item.prezzoBaseAsta)
PvpBasePrice(item) ==
    IF JsonTruthy(item.prezzoBaseAsta) THEN <<Parsed(item.prezzoBaseAsta)>> ELSE <<>>

\* str(v) of a JSON value; a float is written with its fraction, "0" at least
PyStr(v) ==
    IF v.type = "null" THEN <<"N", "o", "n", "e">>
    ELSE IF v.type = "number" THEN DigitsOf(v.num)
    ELSE IF v.type = "float"
         THEN DigitsOf(v.num) \o <<".">> \o (IF StripZeros(v.str) = <<>> THEN <<"0">> ELSE StripZeros(v.str))
    ELSE v.str

\* item.get(key, '') for a key whose default is the empty text
TextOr(v) == IF v.type = "absent" THEN JStr(<<>>) ELSE v

\* the auction_data dictionary built from one item
PvpAuctionData(item) ==
    [external_id |-> PvpExternalId(item),
     title |-> TextOr(item.descLotto),
     price_text |-> PyStr(TextOr(item.prezzoBaseAsta)),
     base_price |-> PvpBasePrice(item),
     auction_round |-> PvpAuctionRound(item.procedura)]

\* the body of `for item in content`: an item that raises is skipped by the
\* except branch, an item whose external_id is falsy is not appended
PvpItemKept(item) == ~PvpBasePriceRaises(item) /\ PvpExternalId(item) # ""

PvpAuctionsOf(kept) == [i \in 1..Len(kept) |-> PvpAuctionData(kept[i])]

\* scrape_auction_list: the auctions built from a 200 response
scrape_auction_list(content) == PvpAuctionsOf(SelectSeq(content, PvpItemKept))

\* publish_auction_data: the external_ids whose POST to the NLP service does
\* not come back with 200; the function then returns False and never raises
NlpRefusals == {{}, {"101"}}

IdsOf(auctions) == [i \in 1..Len(auctions) |-> auctions[i].external_id]

\* a publish loop that gives up the page at the first publish that fails
PvpPublishLoop_abort(ids, refused) ==
    LET first == IF \E i \in 1..Len(ids) : ids[i] \in refused
                 THEN CHOOSE i \in 1..Len(ids) :
                        ids[i] \in refused /\ \A j \in 1..(i - 1) : ids[j] \notin refused
                 ELSE Len(ids)
    IN [handed |-> SubSeq(ids, 1, first),
        total |-> first,
        ok |-> Len(SelectSeq(SubSeq(ids, 1, first), LAMBDA id : id \notin refused)),
        go_on |-> first = Len(ids) /\ (ids = <<>> \/ ids[first] \notin refused)]

\* `for auction in auctions` of run: every auction is handed to
\* publish_auction_data, the returned bool is not read, total_auctions counts
\* every call that returned, and the loop never leaves the page
PvpPublishLoop(ids, refused) ==
    [handed |-> ids,
     total |-> Len(ids),
     ok |-> Len(SelectSeq(ids, LAMBDA id : id \notin refused)),
     go_on |-> TRUE]

\* settings.get_random_delay_ms(), in seconds: the two ends of the range
RandomDelays == {SCRAPER_MIN_DELAY_MS \div 1000, SCRAPER_MAX_DELAY_MS \div 1000}

\* a ban check that lets the run go on after a 403
IsBanMessage_never(status) == FALSE

\* the except branch of run: "403" in error_msg or "429" in error_msg or "Forbidden" in error_msg
IsBanMessage(status) == status \in {403, 429}

\* a ceiling that lets one more page through
PvpTooManyFailures_late(n) == n > pvp_max_consecutive_failures

\* consecutive_failures >= max_consecutive_failures in PVPScraper.run
PvpTooManyFailures(n) == n >= pvp_max_consecutive_failures

\* fetch_api_data up to the POST: the random delay, the rate limiter, the request
PvpClockAtRequest(delay) ==
    IssueRequest(RateLimiterWait(Sleep(Clock, delay), PVP), PVP)

\* the page iteration after the fetch: the failure counter, the ban check,
\* the ceiling and the pause (an empty page pauses 60 s, an error backs off)
PvpAfterFetch(c, resp, auctions, failed, failures, banned, done) ==
    /\ pvp_failures' = failures
    /\ pvp_log' = Append(pvp_log, IF failed THEN "fail" ELSE "ok")
    /\ pvp_requests' = Append(pvp_requests,
                              [page |-> pvp_page, status |-> resp.status,
                               content |-> resp.content, items |-> Len(auctions)])
    /\ pvp_scraped' = IdsOf(auctions)
    /\ pvp_handed' = done.handed
    /\ pvp_published' = pvp_published \cup {done.handed[i] : i \in 1..Len(done.handed)}
    /\ pvp_total' = pvp_total + done.total
    /\ pvp_publish_ok' = pvp_publish_ok + done.ok
    /\ pvp_publish_failed' = pvp_publish_failed + (Len(done.handed) - done.ok)
    /\ IF (failed /\ (banned \/ PvpTooManyFailures(failures))) \/ ~done.go_on
       THEN /\ pc' = "cooldown"
            /\ pvp_reason' = IF ~failed THEN "publish_failed"
                             ELSE IF banned THEN "banned_or_rate_limited"
                             ELSE IF resp.status = 200 THEN "too_many_consecutive_failures"
                             ELSE "too_many_consecutive_errors"
            /\ pvp_page' = pvp_page
            /\ SetClock(c)
       ELSE /\ pc' = pc
            /\ pvp_reason' = pvp_reason
            /\ pvp_page' = pvp_page + 1
            /\ SetClock(Sleep(c, IF ~failed THEN 0
                                 ELSE IF resp.status = 200 THEN SCRAPER_PAUSE_AFTER_ERROR
                                 ELSE SCRAPER_PAUSE_AFTER_ERROR * Pow2(failures - 1)))

\* an iteration that leaves the failure counter alone after a page with auctions
PvpIteration_noreset(c, resp, auctions, failed, refused) ==
    PvpAfterFetch(c, resp, auctions, failed,
                  IF failed THEN pvp_failures + 1 ELSE pvp_failures,
                  resp.status # 200 /\ IsBanMessage(resp.status),
                  PvpPublishLoop(IF failed THEN <<>> ELSE IdsOf(auctions), refused))

\* the body of the loop of PVPScraper.run: the counter grows by one for a
\* page without auctions or with an error, and is reset by any other page
PvpIteration(c, resp, auctions, failed, refused) ==
    PvpAfterFetch(c, resp, auctions, failed,
                  IF failed THEN pvp_failures + 1 ELSE 0,
                  resp.status # 200 /\ IsBanMessage(resp.status),
                  PvpPublishLoop(IF failed THEN <<>> ELSE IdsOf(auctions), refused))

\* one iteration of `for page in range(0, max_pages)` of PVPScraper.run
PvpPage(resp, delay, refused) ==
    /\ pc = "pvp_run"
    /\ pvp_page < pvp_max_pages
    /\ request_count' = request_count + 1
    /\ pvp_got403' = (pvp_got403 \/ resp.status = 403)
    /\ PvpIteration(PvpClockAtRequest(delay), resp,
                    IF resp.status = 200 THEN scrape_auction_list(resp.content) ELSE <<>>,
                    resp.status # 200 \/ scrape_auction_list(resp.content) = <<>>, refused)
    /\ UNCHANGED <<pvp_max_pages, fcVars, matchVars, rankVars, limVars, cycleVars, nlpVars,
                   wsVars, prefVars>>

\* the loop of PVPScraper.run runs out of pages; the closing log line reads
\* `page`, which is unbound when max_pages is 0
PvpLoopEnd ==
    /\ pc = "pvp_run"
    /\ pvp_page >= pvp_max_pages
    /\ pc' = "cooldown"
    /\ pvp_reason' = IF pvp_max_pages = 0 THEN "UnboundLocalError" ELSE "scraping_completed"
    /\ UNCHANGED <<timeVars, pvp_max_pages, pvp_page, pvp_failures, request_count, pvp_total,
                   pvp_log, pvp_got403, pvp_published, pvp_requests, pvp_scraped, pvp_handed,
                   pvp_publish_ok, pvp_publish_failed, fcVars, matchVars, rankVars, limVars, cycleVars, nlpVars,
                   wsVars, prefVars>>

\* an orchestrator that starts the secondary run without the pause
Cooldown_skipped ==
    /\ pc = "cooldown"
    /\ pc' = "fc_start"
    /\ UNCHANGED <<timeVars, pvpVars, fcVars, matchVars, rankVars, limVars, cycleVars, nlpVars,
                   wsVars, prefVars>>

\* run_unified_scraper: asyncio.sleep(10) between the two sources
Cooldown ==
    /\ pc = "cooldown"
    /\ pc' = "fc_start"
    /\ SetClock(Sleep(Clock, SOURCE_COOLDOWN))
    /\ cycle_waited' = cycle_waited + SOURCE_COOLDOWN
    /\ UNCHANGED <<pvpVars, fcVars, matchVars, rankVars, limVars, stop_signal, nlpVars,
                   wsVars, prefVars>>


----------------------------------------------------------------------------
(* Records of the two sources *)

IsoDate(day, tod) == [fmt |-> "%Y-%m-%dT%H:%M:%S", day |-> day, tod |-> tod]
ItDate(day) == [fmt |-> "%d/%m/%Y", day |-> day, tod |-> 0]
FreeTextDate == [fmt |-> "text", day |-> 0, tod |-> 0]

\* a primary record as the backend returns it
Primary(id, address, city, court, date, price, lat, lon, photos, floor_plans, documents) ==
    [external_id |-> id, address |-> address, city |-> city, court |-> court,
     auction_date |-> date, base_price |-> price,
     latitude |-> lat, longitude |-> lon,
     photos |-> photos, floor_plans |-> floor_plans, documents |-> documents, meta |-> NoMeta]

PrimaryRoma ==
    Primary("101", <<"a", "b">>, <<"r">>, <<"a", "b">>, IsoDate(10, 600), <<100>>,
            <<>>, <<>>, <<>>, <<>>, <<>>)
\* a second lot of the same sale: same court, day and price; latitude without longitude
PrimaryRomaLot2 ==
    Primary("103", <<"a", "b">>, <<"r">>, <<"a", "b">>, IsoDate(10, 600), <<100>>,
            <<41>>, <<>>, <<"p1">>, <<>>, <<"d1">>)
PrimaryBari ==
    Primary("102", <<"b", "a">>, <<"b">>, <<"r", "a">>, IsoDate(40, 0), <<200>>,
            <<41>>, <<16>>, <<>>, <<"f1">>, <<>>)
\* a record with nothing to match on
PrimaryBare ==
    Primary("104", <<>>, <<>>, <<>>, NoDate, <<>>, <<>>, <<>>, <<>>, <<>>, <<>>)

\* the answers of GET /api/v1/auctions with status 200
BackendItems == {<<>>, <<PrimaryRoma, PrimaryRomaLot2>>, <<PrimaryRoma, PrimaryBari>>}

\* a result of the secondary listing: what parse_auction_list reads from the
\* listing page before the detail fetch (it never reads an address, a
\* coordinate or a media list)
Listing(id, court, date, price) ==
    [external_id |-> id, url |-> <<id>>, court |-> court, auction_date |-> date,
     base_price |-> price]

ListingRoma == Listing("fallcoaste_1", <<"A", "b">>, ItDate(10), <<100>>)
ListingRomaAgain == Listing("fallcoaste_2", <<"a", "b", " ">>, ItDate(12), <<104>>)
ListingNowhere == Listing("fallcoaste_3", <<"b", "r">>, FreeTextDate, <<>>)
ListingBari == Listing("fallcoaste_4", <<"r", "a">>, ItDate(40), <<200>>)

\* the result lists a listing page may carry
FcContents == {<<>>, <<ListingRoma, ListingRomaAgain>>, <<ListingBari, ListingNowhere>>}

\* parse_detail_page: the fields of a detail page that the matcher reads; a
\* page without these keys leaves the listing data as they are, as None does
DetailPages == {[Tribunale |-> <<<<"r", "a">>>>, DataVendita |-> <<ItDate(40)>>]}

\* fetch_detail_page: None (<<>>) or the parsed page
DetailResults == {<<>>} \cup {<<d>> : d \in DetailPages}

\* the auction_data of parse_auction_list for one result and its detail data
AuctionData(item, detail) ==
    [external_id |-> item.external_id,
     url |-> item.url,
     address |-> <<>>,
     court |-> IF detail # <<>> /\ detail[1].Tribunale # <<>>
               THEN detail[1].Tribunale[1] ELSE item.court,
     auction_date |-> IF detail # <<>> /\ detail[1].DataVendita # <<>>
                      THEN detail[1].DataVendita[1] ELSE item.auction_date,
     base_price |-> item.base_price,
     latitude |-> <<>>, longitude |-> <<>>,
     photos |-> <<>>, floor_plans |-> <<>>, documents |-> <<>>,
     details |-> <<>>]


----------------------------------------------------------------------------
(* fallcoaste_scraper.py *)

\* the outcomes of fetch_pvp_auctions_from_backend: the items of a 200
\* response, or [] on any other status and on any exception raised inside
\* its try block (the lookup of settings.BACKEND_URL is inside it)
BackendResults == BackendItems

\* the fetch of the primary set without the return on an empty set
FcFetchPvpAuctions_proceed(items) ==
    /\ pc = "fc_start"
    /\ pvp_auctions' = items
    /\ pc' = "fc_page"
    /\ UNCHANGED <<timeVars, pvpVars, fc_max_pages, fc_page, fc_attempt, fc_failures,
                   fc_last_request, fc_listing, fc_auctions, fc_total, fc_enrichments, fc_log,
                   fc_reason, fc_results, fc_published_ids, fc_merged, fc_remerged, matchVars,
                   rankVars, limVars, cycleVars, nlpVars,
                   wsVars, prefVars>>

\* FallcoasteScraper.run, enrichment mode: fetch the primary set once, give up if it is empty
FcFetchPvpAuctions(items) ==
    /\ pc = "fc_start"
    /\ pvp_auctions' = items
    /\ IF items = <<>>
       THEN pc' = "done" /\ fc_reason' = "no_pvp_auctions_found"
       ELSE pc' = "fc_page" /\ fc_reason' = fc_reason
    /\ UNCHANGED <<timeVars, pvpVars, fc_max_pages, fc_page, fc_attempt, fc_failures,
                   fc_last_request, fc_listing, fc_auctions, fc_total, fc_enrichments, fc_log,
                   fc_results, fc_published_ids, fc_merged, fc_remerged, matchVars, rankVars, limVars, cycleVars, nlpVars,
                   wsVars, prefVars>>

\* fetch_page up to its retry loop: await self.rate_limiter.wait(self.base_url)
FcFetchPage ==
    /\ pc = "fc_page"
    /\ fc_page <= fc_max_pages
    /\ pc' = "fc_attempt"
    /\ fc_attempt' = 0
    /\ fc_results' = <<>>
    /\ SetClock(RateLimiterWait(Clock, FALLCOASTE))
    /\ UNCHANGED <<pvpVars, fc_max_pages, pvp_auctions, fc_page, fc_failures, fc_last_request,
                   fc_listing, fc_auctions, fc_total, fc_enrichments, fc_reason, fc_log,
                   fc_published_ids, fc_merged, fc_remerged, matchVars, rankVars, limVars, cycleVars, nlpVars,
                   wsVars, prefVars>>

\* what may happen to one GET of a listing page: a status, "timeout"
\* (asyncio.TimeoutError), "client" (aiohttp.ClientError), "other" (any other exception)
FcOutcomes == {"200", "429", "500", "403", "timeout", "client", "other"}

\* the sleep of fetch_page after a failed attempt
FcBackoff(outcome, attempt, jitter) ==
    CASE outcome = "429" -> base_backoff * Pow2(attempt) + jitter
      [] outcome \in {"500", "403"} -> base_backoff * Pow2(attempt)
      [] outcome \in {"timeout", "client"} -> base_backoff * Pow2(attempt) + 2 * jitter
      [] outcome = "other" -> IF attempt < max_retries - 1
                              THEN base_backoff * Pow2(attempt) ELSE 0
      [] OTHER -> 0

\* a check that stops one page late
FcTooManyFailures_late(n) == n > fc_max_consecutive_failures

\* consecutive_failures >= max_consecutive_failures in FallcoasteScraper.run
FcTooManyFailures(n) == n >= fc_max_consecutive_failures

\* the bookkeeping of run for a page that gave no HTML or no auction; c is the
\* clock when the page is given up, wait the sleep before the next page
FcPageFailed(c, wait, why) ==
    LET failures == fc_failures + 1
    IN /\ fc_failures' = failures
       /\ fc_log' = Append(fc_log, "fail")
       /\ fc_attempt' = 0
       /\ fc_last_request' = <<>>
       /\ IF FcTooManyFailures(failures)
          THEN /\ pc' = "done"
               /\ fc_reason' = why
               /\ fc_page' = fc_page
               /\ SetClock(c)
          ELSE /\ pc' = "fc_page"
               /\ fc_reason' = fc_reason
               /\ fc_page' = fc_page + 1
               /\ SetClock(Sleep(c, wait))

\* a retry loop that goes round once more
LastAttempt_late(attempt) == attempt >= max_retries

\* `for attempt in range(self.max_retries)`: attempt is the last one of the loop
LastAttempt(attempt) == attempt + 1 >= max_retries

\* one attempt of the retry loop of fetch_page, and, when it was the last one,
\* the `html is None` branch of run
FcAttempt(outcome, content, jitter, jitter2) ==
    /\ pc = "fc_attempt"
    /\ fc_attempt < max_retries
    /\ LET c0 == IF fc_attempt > 0 THEN Sleep(Clock, jitter) ELSE Clock
           c1 == IssueRequest(c0, FALLCOASTE)
           c2 == IF outcome = "timeout" THEN Sleep(c1, REQUEST_TIMEOUT) ELSE c1
           c3 == Sleep(c2, FcBackoff(outcome, fc_attempt, jitter2))
       IN IF outcome = "200"
          THEN /\ pc' = "fc_parse"
               /\ fc_listing' = content
               /\ fc_auctions' = <<>>
               /\ fc_last_request' = <<fc_page, "listing">>
               /\ SetClock(c1)
               /\ UNCHANGED <<fc_attempt, fc_failures, fc_log, fc_reason, fc_page>>
          ELSE IF ~LastAttempt(fc_attempt)
          THEN /\ fc_attempt' = fc_attempt + 1
               /\ fc_last_request' = <<fc_page, "listing">>
               /\ SetClock(c3)
               /\ UNCHANGED <<pc, fc_failures, fc_log, fc_reason, fc_page, fc_listing, fc_auctions>>
          ELSE /\ FcPageFailed(c3, (SCRAPER_DELAY_MS \div 1000) * (fc_failures + 2),
                               "fallcoaste_too_many_failures")
               /\ UNCHANGED <<fc_listing, fc_auctions>>
    /\ UNCHANGED <<pvpVars, fc_max_pages, pvp_auctions, fc_total, fc_enrichments,
                   fc_results, fc_published_ids, fc_merged, fc_remerged, matchVars, rankVars, limVars, cycleVars, nlpVars,
                   wsVars, prefVars>>

\* parse_auction_list, one result: fetch_detail_page (rate limiter, GET), then auction_data
FcDetail(detail) ==
    /\ pc = "fc_parse"
    /\ fc_listing # <<>>
    /\ fc_last_request' = <<fc_page, "detail">>
    /\ SetClock(IssueRequest(RateLimiterWait(Clock, FALLCOASTE), FALLCOASTE))
    /\ fc_auctions' = Append(fc_auctions, AuctionData(Head(fc_listing), detail))
    /\ fc_listing' = Tail(fc_listing)
    /\ UNCHANGED <<pc, pvpVars, fc_max_pages, pvp_auctions, fc_page, fc_attempt, fc_failures,
                   fc_total, fc_enrichments, fc_reason, fc_log, fc_results, fc_published_ids,
                   fc_merged, fc_remerged, matchVars, rankVars, limVars, cycleVars, nlpVars,
                   wsVars, prefVars>>

\* the threshold run passes to find_best_match, in percent
RunMinScore == 70

\* run_unified_scraper: fallcoaste_scraper.run(max_pages=50, enrichment_mode=True)
enrichment_mode == TRUE

\* the `if match_result:` branches of run: the enriched primary record is
\* published, or nothing is
PublishMatch(auction, match_result) ==
    IF match_result = <<>> THEN {}
    ELSE {enrich_pvp_auction(match_result[1].match, auction, match_result[1].score)}

\* the body of the loop in standalone mode: the secondary record itself is published
RunPublish_standalone(auction, auctions) == {auction}

\* the body of `for auction in auctions` of run: the set of records handed to
\* publish_auction_data for one auction
RunPublish(auction, auctions) ==
    IF enrichment_mode
    THEN PublishMatch(auction, find_best_match(auction, auctions, Pct(RunMinScore)))
    ELSE {auction}

\* the external_ids of the records published for the page
PagePublishedIds(results) ==
    UNION {{r.external_id : r \in results[i].published} : i \in 1..Len(results)}

\* how many records with this external_id are published for the page
PageMergeCount(results, id) ==
    Cardinality({i \in 1..Len(results) : \E r \in results[i].published : r.external_id = id})

\* the records published for the page that come from this primary record
MergesOf(pvp_auction, results) ==
    {r \in UNION {results[i].published : i \in 1..Len(results)} :
        r.external_id = pvp_auction.external_id}

\* a primary record of the list after the merges that took it as argument
AfterMerges(pvp_auction, merges) ==
    IF merges = {} THEN pvp_auction
    ELSE MergeArgument(pvp_auction, CHOOSE r \in merges : TRUE)

\* the list pvp_auctions of run after the loop over the auctions of a page:
\* run itself never assigns to it
PrimariesAfterPage(auctions, results) ==
    [k \in 1..Len(auctions) |-> AfterMerges(auctions[k], MergesOf(auctions[k], results))]

\* run after parse_auction_list: an empty page counts as a failure; otherwise
\* every auction is matched, merged and published, then the polite delay
FcProcessPage(jitter) ==
    /\ pc = "fc_parse"
    /\ fc_listing = <<>>
    /\ IF fc_auctions = <<>>
       THEN /\ FcPageFailed(Clock, (SCRAPER_DELAY_MS \div 1000) * 3,
                            "fallcoaste_too_many_empty_pages")
            /\ UNCHANGED <<fc_total, fc_enrichments, fc_results, fc_published_ids,
                           fc_merged, fc_remerged, pvp_auctions>>
       ELSE LET results == [i \in 1..Len(fc_auctions) |->
                               [auction |-> fc_auctions[i],
                                published |-> RunPublish(fc_auctions[i], pvp_auctions)]]
                ids == PagePublishedIds(results)
            IN /\ fc_failures' = 0
               /\ fc_log' = Append(fc_log, "ok")
               /\ fc_total' = fc_total + Len(fc_auctions)
               /\ fc_enrichments' = fc_enrichments
                      + Cardinality({i \in 1..Len(results) : results[i].published # {}})
               /\ fc_results' = results
               /\ pvp_auctions' = PrimariesAfterPage(pvp_auctions, results)
               /\ fc_published_ids' = fc_published_ids \cup ids
               /\ fc_merged' = fc_merged \cup ids
               /\ fc_remerged' = fc_remerged \cup (fc_merged \cap ids)
                      \cup {id \in ids : PageMergeCount(results, id) > 1}
               /\ pc' = "fc_page"
               /\ fc_page' = fc_page + 1
               /\ fc_attempt' = 0
               /\ fc_reason' = fc_reason
               /\ fc_last_request' = <<>>
               /\ SetClock(Sleep(Clock, (SCRAPER_DELAY_MS \div 1000) + jitter))
    /\ fc_auctions' = <<>>
    /\ UNCHANGED <<pvpVars, fc_max_pages, fc_listing, matchVars, rankVars, limVars, cycleVars, nlpVars,
                   wsVars, prefVars>>

\* the loop of FallcoasteScraper.run runs out of pages
FcLoopEnd ==
    /\ pc = "fc_page"
    /\ fc_page > fc_max_pages
    /\ pc' = "done"
    /\ fc_reason' = "fallcoaste_enrichment_completed"
    /\ UNCHANGED <<timeVars, pvpVars, fc_max_pages, pvp_auctions, fc_page, fc_attempt,
                   fc_failures, fc_last_request, fc_listing, fc_auctions, fc_total,
                   fc_enrichments, fc_log, fc_results, fc_published_ids, fc_merged,
                   fc_remerged, matchVars, rankVars, limVars, cycleVars, nlpVars,
                   wsVars, prefVars>>

----------------------------------------------------------------------------
(* The reconciler as a pair of functions: match and merge on given inputs *)

\* a secondary candidate as the matcher and the merger read it
Candidate(id, address, court, date, price, lat, lon, photos, floor_plans, documents) ==
    [external_id |-> id, url |-> <<id>>, address |-> address, court |-> court,
     auction_date |-> date, base_price |-> price, latitude |-> lat, longitude |-> lon,
     photos |-> photos, floor_plans |-> floor_plans, documents |-> documents,
     details |-> <<>>, pvp_id |-> <<>>]

CandidateRoma ==
    Candidate("fallcoaste_1", <<"a", "b", " ", "r">>, <<"A", "b">>, ItDate(10), <<100>>,
              <<45>>, <<9>>, <<"q1">>, <<"g1">>, <<"e1">>)
CandidateRomaNoAddress ==
    Candidate("fallcoaste_2", <<>>, <<"a", "b", " ">>, ItDate(12), <<104>>,
              <<45>>, <<>>, <<>>, <<>>, <<>>)
CandidateBari ==
    Candidate("fallcoaste_4", <<"b", "a">>, <<"r", "a">>, ItDate(45), <<230>>,
              <<>>, <<9>>, <<"q1">>, <<>>, <<"e1">>)
CandidateHalf ==
    Candidate("fallcoaste_5", <<>>, <<"a", "b">>, ItDate(10), <<>>,
              <<45>>, <<9>>, <<>>, <<"g1">>, <<>>)
CandidateNowhere ==
    Candidate("fallcoaste_3", <<"r">>, <<>>, FreeTextDate, <<>>,
              <<0>>, <<9>>, <<"q1">>, <<>>, <<>>)

PrimaryCatalogue == {PrimaryRoma, PrimaryRomaLot2, PrimaryBari, PrimaryBare}
CandidateCatalogue == {CandidateRoma, CandidateRomaNoAddress, CandidateBari, CandidateHalf,
                       CandidateNowhere}

\* the values of min_score tried, in percent
Thresholds == {0, 50, 70, 100}

\* every list of at most n records of S
RECURSIVE ListsUpTo(_, _)
ListsUpTo(S, n) ==
    IF n = 0 THEN {<<>>}
    ELSE ListsUpTo(S, n - 1) \cup
         {Append(l, x) : l \in {m \in ListsUpTo(S, n - 1) : Len(m) = n - 1}, x \in S}

\* match(candidate, primarySet, minScore): find_best_match at minScore, and
\* whether the candidate is accepted at each of the thresholds
Match(t) ==
    /\ pc = "match"
    /\ m_min_score' = t
    /\ m_result' = find_best_match(m_candidate, m_primary, Pct(t))
    /\ m_accepted' = [u \in Thresholds |->
                         find_best_match(m_candidate, m_primary, Pct(u)) # <<>>]
    /\ UNCHANGED <<pc, timeVars, pvpVars, fcVars, m_primary, m_candidate, m_merged, m_merged2,
                   rankVars, limVars, cycleVars, nlpVars,
                   wsVars, prefVars>>

\* merge(primary, candidate, confidence) on the k-th primary record, by
\* matching_utils.enrich_pvp_auction and by the variant of matcher.py
Merge(k) ==
    /\ pc = "match"
    /\ k \in 1..Len(m_primary)
    /\ m_merged' = <<[primary |-> m_primary[k],
                      merged |-> enrich_pvp_auction(m_primary[k], m_candidate,
                                     calculate_match_score(m_primary[k], m_candidate))]>>
    /\ m_merged2' = <<[primary |-> m_primary[k],
                       merged |-> matcher_enrich_pvp_auction(m_primary[k], m_candidate)]>>
    /\ UNCHANGED <<pc, timeVars, pvpVars, fcVars, m_primary, m_candidate, m_min_score,
                   m_result, m_accepted, rankVars, limVars, cycleVars, nlpVars,
                   wsVars, prefVars>>

----------------------------------------------------------------------------
(* ranking_engine.py.  A record is [base_price, estimated_value, surface_sqm,  *)
(* city, property_type, text, auction_round]; an optional field is <<>> when   *)
(* the key is missing; text is the set of the keywords that occur in           *)
(* description + " " + full_text.  Weights are in percent, sub-scores are      *)
(* fractions, rounded results are in hundredths of a point.                    *)

\* the default of config['ranking']['weights']
DefaultWeights ==
    [price_discount |-> 30, location_score |-> 25, property_condition |-> 15,
     legal_complexity |-> 15, liquidity_potential |-> 15]

\* weights a config.yaml may carry: nothing checks their sign or their sum
WeightSets ==
    {DefaultWeights,
     [price_discount |-> 100, location_score |-> 100, property_condition |-> 100,
      legal_complexity |-> 100, liquidity_potential |-> 100],
     [price_discount |-> 0 - 50, location_score |-> 0, property_condition |-> 0,
      legal_complexity |-> 0 - 50, liquidity_potential |-> 0],
     [price_discount |-> 0, location_score |-> 0, property_condition |-> 0,
      legal_complexity |-> 0, liquidity_potential |-> 0]}

\* data.get(key, default)
Get(v, default) == IF v = <<>> THEN default ELSE v[1]

\* max(0, min(100, score)) on a fraction with a positive denominator
Clamp(x) ==
    IF x.num < 0 THEN Frac(0, 1)
    ELSE IF x.num > 100 * x.den THEN Frac(100, 1)
    ELSE x

RECURSIVE GCD(_, _)
GCD(a, b) == IF b = 0 THEN a ELSE GCD(b, a % b)

\* the same fraction in lowest terms (positive denominator)
Reduce(x) ==
    LET g == GCD(Abs(x.num), x.den)
    IN Frac(x.num \div g, x.den \div g)

\* round(x, 2) of a fraction with a positive denominator, in hundredths
Round2(x) ==
    LET q == (100 * x.num) \div x.den
        r == (100 * x.num) % x.den
    IN IF 2 * r >= x.den THEN q + 1 ELSE q

\* type_multipliers.get(property_type, 1.0), in hundredths
TypeMultiplier(property_type) ==
    CASE property_type = "Appartamento" -> 100
      [] property_type = "Villa" -> 130
      [] property_type = "Attico" -> 120
      [] property_type = "Locale Commerciale" -> 90
      [] property_type = "Ufficio" -> 95
      [] property_type = "Box" -> 60
      [] property_type = "Terreno" -> 30
      [] property_type = "Rustico" -> 70
      [] OTHER -> 100

estimate_market_value(data) ==
    LET surface == Get(data.surface_sqm, 80)
        property_type == Get(data.property_type, "Appartamento")
        base_price_sqm ==
            IF data.city \in {"Roma", "Milano", "Firenze", "Bologna", "Venezia"} THEN 3500
            ELSE IF data.city \in {"Torino", "Napoli", "Genova", "Palermo", "Bari"} THEN 2200
            ELSE 1500
    IN Reduce(Frac(surface * base_price_sqm * TypeMultiplier(property_type), 100))

\* the score when a record without an estimate gets the neutral value
calculate_price_discount_score_noestimate(data) ==
    LET base_price == Get(data.base_price, 0)
    IN IF base_price <= 0 \/ data.estimated_value \in {<<>>, <<0>>} THEN Frac(50, 1)
       ELSE IF data.estimated_value[1] <= 0 THEN Frac(50, 1)
       ELSE Reduce(Clamp(Frac((data.estimated_value[1] - base_price) * 200,
                              data.estimated_value[1])))

calculate_price_discount_score(data) ==
    LET base_price == Get(data.base_price, 0)
        estimated_value == IF data.estimated_value = <<>> \/ data.estimated_value = <<0>>
                           THEN estimate_market_value(data)
                           ELSE Frac(data.estimated_value[1], 1)
    IN IF base_price <= 0 THEN Frac(50, 1)
       ELSE IF estimated_value.num <= 0 THEN Frac(50, 1)
       ELSE Reduce(Clamp(Frac((estimated_value.num - base_price * estimated_value.den) * 200,
                              estimated_value.num)))

calculate_location_score(data) ==
    IF data.city \in {"Roma", "Milano", "Firenze", "Bologna", "Venezia", "Torino"}
    THEN Frac(90, 1)
    ELSE IF data.city \in {"Napoli", "Genova", "Palermo", "Bari", "Catania", "Verona"}
    THEN Frac(75, 1)
    ELSE IF data.city \in {"Padova", "Trieste", "Brescia", "Parma", "Modena", "Reggio Emilia"}
    THEN Frac(65, 1)
    ELSE Frac(50, 1)

calculate_property_condition_score(data) ==
    IF data.text \cap {"ottimo", "ristrutturato", "nuovo", "recente", "moderno"} # {}
    THEN Frac(90, 1)
    ELSE IF data.text \cap {"buono", "abitabile", "discreto"} # {} THEN Frac(75, 1)
    ELSE IF data.text \cap {"da ristrutturare", "necessita lavori", "da ammodernare"} # {}
    THEN Frac(50, 1)
    ELSE IF data.text \cap {"pessimo", "da demolire", "rudere", "collabente"} # {}
    THEN Frac(25, 1)
    ELSE Frac(60, 1)

\* the score of calculate_legal_complexity_score before its clamp
LegalPoints(data) ==
    LET auction_round == Get(data.auction_round, 1)
    IN 70 - (IF "occupato" \in data.text THEN 30 ELSE 0)
          - (IF "pignoramento" \in data.text THEN 20 ELSE 0)
          - (IF "ipoteca" \in data.text THEN 15 ELSE 0)
          + (IF "libero" \in data.text THEN 20 ELSE 0)
          + (IF "prima asta" \in data.text THEN 10 ELSE 0)
          - (IF auction_round = 2 THEN 5 ELSE IF auction_round >= 3 THEN 10 ELSE 0)

\* a legal score that is returned as it was added up
calculate_legal_complexity_score_raw(data) == Frac(LegalPoints(data), 1)

calculate_legal_complexity_score(data) == Clamp(Frac(LegalPoints(data), 1))

calculate_liquidity_score(data) ==
    LET property_type == Get(data.property_type, "Appartamento")
        surface == Get(data.surface_sqm, 80)
        type_score ==
            CASE property_type = "Appartamento" -> 90
              [] property_type = "Attico" -> 85
              [] property_type = "Villa" -> 70
              [] property_type = "Ufficio" -> 65
              [] property_type = "Locale Commerciale" -> 60
              [] property_type = "Box" -> 75
              [] property_type = "Magazzino" -> 50
              [] property_type = "Terreno" -> 40
              [] property_type = "Rustico" -> 45
              [] OTHER -> 60
        size_bonus ==
            IF property_type # "Appartamento" THEN 0
            ELSE IF 60 <= surface /\ surface <= 120 THEN 10
            ELSE IF (40 <= surface /\ surface < 60) \/ (120 < surface /\ surface <= 150) THEN 5
            ELSE 0
    IN Frac(Min(100, type_score + size_bonus), 1)

\* calculate_ai_score with WEIGHTS = weights: (overall_score, breakdown), rounded
calculate_ai_score(data, weights) ==
    LET price_score == calculate_price_discount_score(data)
        location_score == calculate_location_score(data)
        condition_score == calculate_property_condition_score(data)
        legal_score == calculate_legal_complexity_score(data)
        liquidity_score == calculate_liquidity_score(data)
        sum == FracAdd(FracAdd(FracAdd(FracAdd(
                   FracScale(price_score, weights.price_discount),
                   FracScale(location_score, weights.location_score)),
                   FracScale(condition_score, weights.property_condition)),
                   FracScale(legal_score, weights.legal_complexity)),
                   FracScale(liquidity_score, weights.liquidity_potential))
        overall_score == Reduce(Clamp(Frac(sum.num, sum.den * 100)))
    IN [overall_score |-> Round2(overall_score),
        breakdown |-> [price_discount |-> Round2(price_score),
                       location_score |-> Round2(location_score),
                       property_condition |-> Round2(condition_score),
                       legal_complexity |-> Round2(legal_score),
                       liquidity_potential |-> Round2(liquidity_score)]]

\* the records the engine is run on
RankTexts == {{}, {"occupato", "pignoramento", "ipoteca", "rudere"},
              {"libero", "prima asta", "ristrutturato"}, {"occupato", "libero", "buono"},
              {"ipoteca", "da ristrutturare"}}

\* records around a flat of 80 square metres in Milano offered at 200,000
PriceExamples ==
    [base_price : {<<>>, <<0>>, <<200000>>},
     estimated_value : {<<>>, <<0>>, <<0 - 1>>, <<250000>>},
     surface_sqm : {<<>>, <<0>>, <<80>>},
     city : {"Milano", "Napoli"},
     property_type : {<<>>, <<"Appartamento">>, <<"Box">>},
     text : {{}},
     auction_round : {<<>>}]

RankRecords ==
    PriceExamples \cup
    [base_price : {<<>>, <<0>>, <<50000>>, <<400000>>},
     estimated_value : {<<>>, <<0 - 1>>, <<100000>>},
     surface_sqm : {<<>>, <<0>>, <<50>>, <<130>>},
     city : {"Roma", "Bari", "Padova", ""},
     property_type : {<<>>, <<"Villa">>, <<"Terreno">>, <<"UNKNOWN">>},
     text : RankTexts,
     auction_round : {<<>>, <<2>>, <<3>>}]

\* POST /calculate-score and step 3 of process_auction
Score ==
    /\ pc = "rank"
    /\ r_result = <<>>
    /\ r_result' = <<calculate_ai_score(r_data, r_weights)>>
    /\ UNCHANGED <<pc, timeVars, pvpVars, fcVars, matchVars, r_data, r_weights, limVars, cycleVars, nlpVars,
                   wsVars, prefVars>>

----------------------------------------------------------------------------
(* The price parsers: normalizer.py, matcher.py, fallcoaste_scraper.py.
   A price text is a sequence of characters among the digits, ".", ",",
   the euro sign and the blank; a number is its whole part and the digits
   of its fraction without trailing zeros *)

Number(whole, frac) == [whole |-> whole, frac |-> frac]

\* str.replace(c, '') and re.sub('[...]', '', text) for a set of characters
Without(s, chars) == SelectSeq(s, LAMBDA c : c \notin chars)

\* str.replace(',', '.')
CommaToDot(s) == [i \in 1..Len(s) |-> IF s[i] = "," THEN "." ELSE s[i]]

\* the position of the first "." of s, Len(s) + 1 when there is none
DotAt(s) ==
    IF \E i \in 1..Len(s) : s[i] = "."
    THEN CHOOSE i \in 1..Len(s) : s[i] = "." /\ \A j \in 1..(i - 1) : s[j] # "."
    ELSE Len(s) + 1

\* float(s) raises ValueError unless s is digits with at most one "." and at
\* least one digit (no sign, exponent or blank occurs in these texts)
FloatRaises(s) ==
    \/ \E i \in 1..Len(s) : ~IsDigit(s[i]) /\ s[i] # "."
    \/ Len(SelectSeq(s, LAMBDA c : c = ".")) > 1
    \/ \A i \in 1..Len(s) : ~IsDigit(s[i])

\* float(s) of a text float accepts
FloatAt(s, dot) ==
    Number(NumeralValue(SubSeq(s, 1, dot - 1)), StripZeros(SubSeq(s, dot + 1, Len(s))))
PyFloat(s) == FloatAt(s, DotAt(s))

\* re.search(r'(\d+(?:\.\d{1,2})?)', text): the first run of digits and, if a
\* "." and a digit follow it, up to two digits of fraction; <<>> without a digit
DigitRunEnd(s, i) ==
    CHOOSE j \in i..Len(s) :
        /\ \A k \in i..j : IsDigit(s[k])
        /\ (j = Len(s) \/ ~IsDigit(s[j + 1]))
FractionEnd(s, j) ==
    IF j + 1 < Len(s) /\ s[j + 1] = "." /\ IsDigit(s[j + 2])
    THEN IF j + 2 < Len(s) /\ IsDigit(s[j + 3]) THEN j + 3 ELSE j + 2
    ELSE j
NumberFrom(s, i) == SubSeq(s, i, FractionEnd(s, DigitRunEnd(s, i)))
FirstNumber(s) ==
    IF \E i \in 1..Len(s) : IsDigit(s[i])
    THEN NumberFrom(s, CHOOSE i \in 1..Len(s) : IsDigit(s[i]) /\ \A k \in 1..(i - 1) : ~IsDigit(s[k]))
    ELSE <<>>

\* normalizer.normalize_price: 0.0 for an empty text and for a text without
\* a digit ('EUR' does not occur in these texts)
NormalizedNumber(found) == IF found = <<>> THEN Number(0, <<>>) ELSE PyFloat(found)
normalize_price(price_text) ==
    NormalizedNumber(FirstNumber(CommaToDot(Without(Without(price_text, {"€"}), {"."}))))

\* matcher.parse_price: None (<<>>) for an empty text and when float raises
FloatOrNone(s) == IF FloatRaises(s) THEN <<>> ELSE <<PyFloat(s)>>
parse_price(price_text) ==
    IF price_text = <<>> THEN <<>>
    ELSE FloatOrNone(CommaToDot(Without(Without(price_text, {"€", " "}), {"."})))

\* FallcoasteScraper.extract_price: re.sub(r'[€.,\s]', '', price_text), then
\* float, None when nothing is left or float raises
extract_price(price_text) ==
    FloatOrNone(CommaToDot(Without(price_text, {"€", ".", ",", " "})))

\* digits with a "." before every group of three
RECURSIVE Grouped(_)
Grouped(ds) ==
    IF Len(ds) <= 3 THEN ds
    ELSE Grouped(SubSeq(ds, 1, Len(ds) - 3)) \o <<".">> \o SubSeq(ds, Len(ds) - 2, Len(ds))

\* a price the Italian way: "." between thousands, "," and two digits of
\* cents (none when cents is -1), with or without the euro sign in front
ItalianPrice(euros, cents, symbol) ==
    (IF symbol THEN <<"€", " ">> ELSE <<>>)
      \o Grouped(DigitsOf(euros))
      \o (IF cents < 0 THEN <<>> ELSE <<",", Digits[(cents \div 10) + 1], Digits[(cents % 10) + 1]>>)

\* the number such a text stands for
PriceValue(euros, cents) ==
    Number(euros, IF cents < 0 THEN <<>>
                  ELSE StripZeros(<<Digits[(cents \div 10) + 1], Digits[(cents % 10) + 1]>>))

PriceEuros == {0, 7, 999, 1000, 150000, 1234567, 20000000}
PriceCents == {-1, 0, 5, 50, 99}

\* the three parsers on one price text
ParsePrices ==
    /\ pc = "price"
    /\ p_result = <<>>
    /\ p_result' = <<[normalize_price |-> <<normalize_price(p_text.text)>>,
                      parse_price |-> parse_price(p_text.text),
                      extract_price |-> extract_price(p_text.text)]>>
    /\ UNCHANGED <<pc, timeVars, pvpVars, fcVars, matchVars, rankVars, limVars, cycleVars,
                   p_text, n_input, n_result, wsVars, prefVars>>

----------------------------------------------------------------------------
(* The /process pipeline of the NLP service: main.py, normalizer.py,
   ner_extractor.py. A text is a sequence of lower-case characters without a
   line break; the body of a request is the published dictionary, a key that
   is missing or None being <<>> *)

\* dict.get(key) of a record: <<>> for a key the record does not have
DictGet(d, key) == IF key \in DOMAIN d THEN d[key] ELSE <<>>

\* the JSON body publish_auction_data posts for a record of PVPScraper
PvpBody(auction_data) ==
    [external_id |-> auction_data.external_id,
     title |-> IF auction_data.title.type = "string" THEN <<auction_data.title.str>> ELSE <<>>,
     description |-> <<>>, full_text |-> <<>>,
     price_text |-> <<auction_data.price_text>>,
     latitude |-> <<>>, longitude |-> <<>>,
     photos |-> <<>>, floor_plans |-> <<>>, documents |-> <<>>, meta |-> NoMeta]

\* the JSON body posted for an enriched primary record; the backend's
\* AuctionResponse carries a title and no price_text
EnrichedBody(enriched, title) ==
    [external_id |-> enriched.external_id,
     title |-> <<title>>,
     description |-> <<>>, full_text |-> <<>>,
     price_text |-> <<>>,
     latitude |-> enriched.latitude, longitude |-> enriched.longitude,
     photos |-> enriched.photos, floor_plans |-> enriched.floor_plans,
     documents |-> enriched.documents, meta |-> enriched.meta]

\* AuctionInput: the declared fields only; title is required
AuctionInputRejects(body) == body.title = <<>>
AuctionInput(body) ==
    [external_id |-> body.external_id, title |-> body.title[1],
     description |-> body.description, full_text |-> body.full_text,
     price_text |-> body.price_text]

\* normalizer.normalize_auction_text: price_text is a key of auction.dict(),
\* so base_price is always set; None gives 0.0
TextOf(optional) == IF optional = <<>> THEN <<>> ELSE optional[1]
normalize_auction_text(data) ==
    [external_id |-> data.external_id, title |-> data.title,
     description |-> data.description, full_text |-> data.full_text,
     price_text |-> data.price_text,
     base_price |-> <<normalize_price(TextOf(data.price_text))>>]

\* [\d.,]
IsPriceChar(c) == IsDigit(c) \/ c \in {".", ","}

\* ([\d.,]+) from position i: the longest run of such characters
PriceRunEnd(s, i) ==
    CHOOSE j \in i..Len(s) :
        /\ \A k \in i..j : IsPriceChar(s[k])
        /\ (j = Len(s) \/ ~IsPriceChar(s[j + 1]))
PriceRun(s, i) == SubSeq(s, i, PriceRunEnd(s, i))

\* prezzo base | base d'?asta | valore
PriceKeywords ==
    {<<"p", "r", "e", "z", "z", "o", " ", "b", "a", "s", "e">>,
     <<"b", "a", "s", "e", " ", "d", "'", "a", "s", "t", "a">>,
     <<"b", "a", "s", "e", " ", "d", "a", "s", "t", "a">>,
     <<"v", "a", "l", "o", "r", "e">>}

\* the positions right after an occurrence of a keyword that starts at i
KeywordEnds(s, i) ==
    {i + Len(kw) : kw \in {k \in PriceKeywords :
                              i + Len(k) - 1 <= Len(s) /\ SubSeq(s, i, i + Len(k) - 1) = k}}

\* the group of the first pattern, keyword .*? euro sign? blanks ([\d.,]+):
\* the run that starts at the first such character after the first keyword
KeywordGroupFrom(s, from) ==
    LET at == {j \in from..Len(s) : IsPriceChar(s[j])}
    IN IF at = {} THEN <<>> ELSE <<PriceRun(s, MinOf(at))>>
KeywordGroup(s) ==
    LET starts == {i \in 1..Len(s) : KeywordEnds(s, i) # {}}
    IN IF starts = {} THEN <<>>
       ELSE KeywordGroupFrom(s, MinOf(KeywordEnds(s, MinOf(starts))))

\* blanks from position i, then position j
BlanksUpTo(s, i, j) == j <= Len(s) /\ \A k \in i..(j - 1) : s[k] = " "

\* the group of the second pattern, euro sign, blanks, ([\d.,]+)
EuroFirstAt(s, i) == {j \in (i + 1)..Len(s) : BlanksUpTo(s, i + 1, j) /\ IsPriceChar(s[j])}
EuroFirstGroup(s) ==
    LET starts == {i \in 1..Len(s) : s[i] = "€" /\ EuroFirstAt(s, i) # {}}
    IN IF starts = {} THEN <<>>
       ELSE <<PriceRun(s, MinOf(EuroFirstAt(s, MinOf(starts))))>>

\* ([.,]\d{3})* ([.,]\d{2})? to the end of g
RECURSIVE ThousandsShape(_)
ThousandsShape(g) ==
    \/ g = <<>>
    \/ Len(g) = 3 /\ g[1] \in {".", ","} /\ IsDigit(g[2]) /\ IsDigit(g[3])
    \/ /\ Len(g) >= 4
       /\ g[1] \in {".", ","} /\ IsDigit(g[2]) /\ IsDigit(g[3]) /\ IsDigit(g[4])
       /\ ThousandsShape(SubSeq(g, 5, Len(g)))

\* [\d]{1,3} then the groups of thousands and the cents
GroupedShape(g) ==
    \E h \in 1..3 :
        /\ h <= Len(g)
        /\ \A k \in 1..h : IsDigit(g[k])
        /\ ThousandsShape(SubSeq(g, h + 1, Len(g)))

\* the group of the third pattern, a grouped number, blanks, the euro sign:
\* the match starts at the first digit from which the rest of the run has
\* the shape and the sign follows
EuroLastFrom(s, i, e) ==
    /\ GroupedShape(SubSeq(s, i, e))
    /\ \E j \in (e + 1)..Len(s) : BlanksUpTo(s, e + 1, j) /\ s[j] = "€"
EuroLastGroup(s) ==
    LET starts == {i \in 1..Len(s) : IsDigit(s[i]) /\ EuroLastFrom(s, i, PriceRunEnd(s, i))}
    IN IF starts = {} THEN <<>> ELSE <<PriceRun(s, MinOf(starts))>>

\* the sanity check 1000 <= price <= 100000000
PRICE_MIN == 1000
PRICE_MAX == 100000000
InBand(price) ==
    /\ PRICE_MIN <= price.whole
    /\ price.whole < PRICE_MAX \/ (price.whole = PRICE_MAX /\ price.frac = <<>>)

\* the body of the loop over the patterns for one pattern: None when the
\* pattern does not match, when float raises and when the price is out of band
BandedPrice(parsed) == IF parsed # <<>> /\ InBand(parsed[1]) THEN parsed ELSE <<>>
PatternPrice(group) ==
    IF group = <<>> THEN <<>>
    ELSE BandedPrice(FloatOrNone(CommaToDot(Without(group[1], {"."}))))

\* ner_extractor.extract_price: the first pattern that gives a price in band
FirstOf(p1, p2, p3) == IF p1 # <<>> THEN p1 ELSE IF p2 # <<>> THEN p2 ELSE p3
ner_extract_price(text) ==
    FirstOf(PatternPrice(KeywordGroup(text)), PatternPrice(EuroFirstGroup(text)),
            PatternPrice(EuroLastGroup(text)))

\* ner_extractor.extract_entities, the price: found in title, description and
\* full_text joined by blanks
extract_entities(title, description, full_text) ==
    [base_price |-> ner_extract_price(title \o <<" ">> \o description \o <<" ">> \o full_text)]

\* normalized.update(entities): a price found in the text replaces the
\* normalized one
Updated(normalized, entities) ==
    IF entities.base_price = <<>> THEN normalized
    ELSE [normalized EXCEPT !.base_price = entities.base_price]

\* the record that is scored, embedded and saved
Normalized(auction) ==
    Updated(normalize_auction_text(auction),
            extract_entities(auction.title, TextOf(auction.description),
                             TextOf(auction.full_text)))

\* the coordinates save_to_backend adds when both are truthy
HasCoordinates(auction_data) ==
    Truthy(DictGet(auction_data, "latitude")) /\ Truthy(DictGet(auction_data, "longitude"))

\* save_to_backend: the dictionary posted to the backend
backend_data(auction_data) ==
    [external_id |-> auction_data.external_id,
     title |-> auction_data.title,
     base_price |-> DictGet(auction_data, "base_price"),
     latitude |-> IF HasCoordinates(auction_data) THEN DictGet(auction_data, "latitude") ELSE <<>>,
     longitude |-> IF HasCoordinates(auction_data) THEN DictGet(auction_data, "longitude") ELSE <<>>]

\* the answers of the backend to the POST of save_to_backend
BackendStatuses == {201, 500}

\* process_auction: 422 for a body AuctionInput rejects; otherwise the record
\* is normalized, scored and posted to the backend, whose refusal is logged
Processed(normalized, status) ==
    [status |-> 200, scored |-> <<normalized>>, posted |-> <<backend_data(normalized)>>,
     saved |-> status \in {200, 201}]
process_auction(status) ==
    /\ pc = "process"
    /\ n_result = <<>>
    /\ n_result' = <<IF AuctionInputRejects(n_input.body)
                     THEN [status |-> 422, scored |-> <<>>, posted |-> <<>>, saved |-> FALSE]
                     ELSE Processed(Normalized(AuctionInput(n_input.body)), status)>>
    /\ UNCHANGED <<pc, timeVars, pvpVars, fcVars, matchVars, rankVars, limVars, cycleVars,
                   p_text, p_result, n_input, wsVars, prefVars>>

\* titles of lots: without a price, with a price after a keyword, after and
\* before the euro sign, with a full stop after the keyword
LotTitles ==
    {<<>>,
     <<"l", "o", "t", "t", "o">>,
     <<"l", "o", "t", "t", "o", " ", "1">>,
     <<"v", "a", "l", "o", "r", "e", " ", "5", "0", "0">>,
     <<"€", " ", "1", "5", "0", ".", "0", "0", "0", ",", "5", "0">>,
     <<"2", "5", "0", ".", "0", "0", "0", " ", "€">>,
     <<"v", "a", "l", "o", "r", "e", ".", " ", "€", " ", "2", "0", "0", "0">>,
     <<"5", "0", "0", " ", "€">>}

\* prices as the provider's JSON gives them
ProviderPrices ==
    {JAbsent, JNull, JNum(0), JNum(500), JNum(150000), JFloat(150000, <<"0">>),
     JFloat(150000, <<"5">>), JFloat(999, <<"9", "9">>)}

\* the number a provider price is
ProviderNumber(v) ==
    IF v.type = "number" THEN <<Number(v.num, <<>>)>>
    ELSE IF v.type = "float" THEN <<Number(v.num, StripZeros(v.str))>>
    ELSE <<>>

----------------------------------------------------------------------------
(* api/websocket.py.  The handlers and the broadcasts are coroutines of one
   event loop: a step runs from one await to the next.  A set object that was
   deleted from active_connections is empty from then on; an iterator over a
   set raises RuntimeError at its next step when the size of the set is not
   the size it had when the loop began *)

\* the connections and the users of the model
WsSockets == {"a", "b", "c"}
WsUsers == {1, 2}
WsTasks == {"notify", "other"}

\* a token: was it signed with the key, its "sub" and its "user_id" claims
JwtToken(signed, sub, user_id) == [signed |-> signed, sub |-> sub, user_id |-> user_id]

\* the token argument: None, a forged token, tokens without a claim, a full token
WsTokens ==
    {<<>>,
     <<JwtToken(FALSE, <<"x">>, <<2>>)>>,
     <<JwtToken(TRUE, <<>>, <<2>>)>>,
     <<JwtToken(TRUE, <<"x">>, <<>>)>>,
     <<JwtToken(TRUE, <<"x">>, <<2>>)>>}

\* verify_token: the user_id, <<>> when it raises ValueError
verify_token(token) ==
    IF ~token.signed \/ token.sub = <<>> THEN <<>>
    ELSE <<Get(token.user_id, 1)>>

\* active_connections is kept per user: <<>> without the key, <<set>> with it
HasKey(connections, user_id) == connections[user_id] # <<>>

\* active_connections without the key user_id
WithoutKey(connections, user_id) == [connections EXCEPT ![user_id] = <<>>]

\* lines 77-79: register the connection
Register(connections, user_id, websocket) ==
    IF HasKey(connections, user_id)
    THEN [connections EXCEPT ![user_id] = <<@[1] \cup {websocket}>>]
    ELSE [connections EXCEPT ![user_id] = <<{websocket}>>]

\* del active_connections[user_id] when the set has become empty
DropIfEmpty_keep(connections, user_id) == connections

DropIfEmpty(connections, user_id) ==
    IF connections[user_id][1] = {} THEN WithoutKey(connections, user_id) ELSE connections

\* lines 100-103 and 111-114: remove the connection
Unregister(connections, user_id, websocket) ==
    IF HasKey(connections, user_id)
    THEN DropIfEmpty([connections EXCEPT ![user_id] = <<@[1] \ {websocket}>>], user_id)
    ELSE connections

\* lines 143-147 with the key present: discard the failed connections
Discarded(connections, user_id, disconnected) ==
    DropIfEmpty([connections EXCEPT ![user_id] = <<@[1] \ disconnected>>], user_id)

\* a call of broadcast_to_user that is not running
NoBroadcast(at) ==
    [pc |-> at, user_id |-> 0, websocket |-> "", used |-> 0, yielded |-> {},
     detached |-> FALSE, disconnected |-> {}, delivered |-> {}, stayed |-> {}, missed |-> {}]

\* what a change of active_connections means to the running broadcasts: the
\* set a loop iterates is detached once its key is deleted, and a connection
\* has stayed registered as long as it was never removed
BroadcastsAfter(broadcasts, connections) ==
    [b \in WsTasks |->
        IF broadcasts[b].pc # "sending" THEN broadcasts[b]
        ELSE LET u == broadcasts[b].user_id
             IN IF HasKey(connections, u)
                THEN [broadcasts[b] EXCEPT !.stayed = @ \cap connections[u][1]]
                ELSE [broadcasts[b] EXCEPT !.stayed = {}, !.detached = TRUE]]

\* handle_websocket_connection up to websocket.accept(): lines 63-71
WsConnect(websocket, token) ==
    /\ pc = "ws"
    /\ ws_handler[websocket].pc = "new"
    /\ ws_handler' =
          [ws_handler EXCEPT ![websocket] =
              IF token = <<>> \/ verify_token(token[1]) = <<>>
              THEN [pc |-> "ended", user_id |-> 0, accepted |-> FALSE]
              ELSE [pc |-> "accepting", user_id |-> verify_token(token[1])[1],
                    accepted |-> FALSE]]
    /\ UNCHANGED <<pc, timeVars, pvpVars, fcVars, matchVars, rankVars, limVars, cycleVars,
                   nlpVars, ws_registry, ws_broadcast, prefVars>>

\* websocket.accept() returns or raises, then lines 77-85
WsAccept(websocket, ok) ==
    /\ pc = "ws"
    /\ ws_handler[websocket].pc = "accepting"
    /\ IF ok
       THEN /\ ws_handler' = [ws_handler EXCEPT ![websocket].pc = "receiving",
                                                ![websocket].accepted = TRUE]
            /\ ws_registry' = Register(ws_registry, ws_handler[websocket].user_id, websocket)
       ELSE /\ ws_handler' = [ws_handler EXCEPT ![websocket].pc = "ended",
                                                ![websocket].user_id = 0]
            /\ ws_registry' = ws_registry
    /\ ws_broadcast' = BroadcastsAfter(ws_broadcast, ws_registry')
    /\ UNCHANGED <<pc, timeVars, pvpVars, fcVars, matchVars, rankVars, limVars, cycleVars,
                   nlpVars, prefVars>>

\* what ends the receive loop: WebSocketDisconnect (from receive_text or from
\* the pong), any other exception (a text that is not a JSON object).  A
\* message that is handled leaves the state as it is
WsEvents == {"disconnect", "error"}

\* lines 87-114: the receive loop ends and the connection is removed
WsReceive(websocket, event) ==
    /\ pc = "ws"
    /\ ws_handler[websocket].pc = "receiving"
    /\ ws_handler' = [ws_handler EXCEPT ![websocket].pc = "ended", ![websocket].user_id = 0]
    /\ ws_registry' = Unregister(ws_registry, ws_handler[websocket].user_id, websocket)
    /\ ws_broadcast' = BroadcastsAfter(ws_broadcast, ws_registry')
    /\ UNCHANGED <<pc, timeVars, pvpVars, fcVars, matchVars, rankVars, limVars, cycleVars,
                   nlpVars, prefVars>>

\* broadcast_to_user up to its first send, lines 125-133; broadcast_to_all
\* makes this call for every key it found
WsBroadcastStart(task, user_id) ==
    /\ pc = "ws"
    /\ ws_broadcast[task].pc # "sending"
    /\ IF ~HasKey(ws_registry, user_id)
       THEN ws_broadcast' = [ws_broadcast EXCEPT ![task] =
                                [NoBroadcast("done") EXCEPT !.user_id = user_id]]
       ELSE \E websocket \in ws_registry[user_id][1] :
               ws_broadcast' = [ws_broadcast EXCEPT ![task] =
                   [pc |-> "sending", user_id |-> user_id, websocket |-> websocket,
                    used |-> Cardinality(ws_registry[user_id][1]), yielded |-> {websocket},
                    detached |-> FALSE, disconnected |-> {}, delivered |-> {},
                    stayed |-> ws_registry[user_id][1], missed |-> {}]]
    /\ UNCHANGED <<pc, timeVars, pvpVars, fcVars, matchVars, rankVars, limVars, cycleVars,
                   nlpVars, ws_registry, ws_handler, prefVars>>

\* the connections that were registered from the first line of the call to
\* its last and were not sent the message
Missed(broadcast, connections) ==
    IF HasKey(connections, broadcast.user_id)
    THEN (broadcast.stayed \cap connections[broadcast.user_id][1]) \ broadcast.delivered
    ELSE {}

\* the step of the set iterator: has the set changed size
SetChangedSize(broadcast, connections) ==
    \/ broadcast.detached
    \/ ~HasKey(connections, broadcast.user_id)
    \/ Cardinality(connections[broadcast.user_id][1]) # broadcast.used

\* websocket.send_json returns (ok) or raises, then the loop goes on: lines
\* 131-153.  A connection that was in the set all along is yielded before
\* the loop ends; one added meanwhile may be yielded or passed over
WsBroadcastSend(task, ok) ==
    /\ pc = "ws"
    /\ ws_broadcast[task].pc = "sending"
    /\ LET broadcast == ws_broadcast[task]
           sent == [broadcast EXCEPT
                       !.delivered = IF ok THEN @ \cup {broadcast.websocket} ELSE @,
                       !.disconnected = IF ok THEN @ ELSE @ \cup {broadcast.websocket}]
       IN IF SetChangedSize(broadcast, ws_registry)
          THEN /\ ws_broadcast' = [ws_broadcast EXCEPT ![task] =
                                      [NoBroadcast("raised") EXCEPT !.user_id = broadcast.user_id]]
               /\ ws_registry' = ws_registry
          ELSE \/ \E websocket \in ws_registry[broadcast.user_id][1] \ broadcast.yielded :
                     /\ ws_broadcast' = [ws_broadcast EXCEPT ![task] =
                                            [sent EXCEPT !.websocket = websocket,
                                                         !.yielded = @ \cup {websocket}]]
                     /\ ws_registry' = ws_registry
             \/ /\ broadcast.stayed \subseteq broadcast.yielded
                /\ ws_registry' = Discarded(ws_registry, broadcast.user_id, sent.disconnected)
                /\ ws_broadcast' =
                      [BroadcastsAfter(ws_broadcast, ws_registry') EXCEPT ![task] =
                          [NoBroadcast("done") EXCEPT
                              !.user_id = broadcast.user_id,
                              !.missed = Missed(sent, ws_registry')]]
    /\ UNCHANGED <<pc, timeVars, pvpVars, fcVars, matchVars, rankVars, limVars, cycleVars,
                   nlpVars, ws_handler, prefVars>>

WsIdle ==
    /\ ws_registry = [u \in WsUsers |-> <<>>]
    /\ ws_handler = [s \in WsSockets |-> [pc |-> "new", user_id |-> 0, accepted |-> FALSE]]
    /\ ws_broadcast = [b \in WsTasks |-> NoBroadcast("idle")]

----------------------------------------------------------------------------
(* api/preferences.py.  The table search_preferences is kept per id: <<>>
   without a row, <<row>> with one; current_user is the user the request was
   authenticated as.  A request is one transaction *)

PrefUsers == {1, 2}
PrefIds == 1..MaxPrefs

\* SearchPreferenceCreate bodies
PrefCreates ==
    {[name |-> "casa", filters |-> "Roma", notify |-> TRUE],
     [name |-> "box", filters |-> "Bari", notify |-> FALSE]}

\* SearchPreferenceUpdate bodies: every field is optional
PrefUpdates ==
    {[name |-> <<>>, filters |-> <<>>, notify |-> <<>>, is_active |-> <<>>],
     [name |-> <<"villa">>, filters |-> <<>>, notify |-> <<>>, is_active |-> <<>>],
     [name |-> <<>>, filters |-> <<"Milano">>, notify |-> <<FALSE>>, is_active |-> <<FALSE>>]}

\* select(SearchPreference).where(id == preference_id): the rows of any user
SelectById_anyuser(table, preference_id, user_id) == table[preference_id]

\* select(SearchPreference).where(id == preference_id, user_id == current_user.id)
\* .scalar_one_or_none()
SelectById(table, preference_id, user_id) ==
    IF table[preference_id] # <<>> /\ table[preference_id][1].user_id = user_id
    THEN table[preference_id]
    ELSE <<>>

\* the rows of a user by descending id, from the row `from` down
RECURSIVE RowsOf(_, _, _)
RowsOf(table, user_id, from) ==
    IF from = 0 THEN <<>>
    ELSE IF table[from] # <<>> /\ table[from][1].user_id = user_id
    THEN <<[id |-> from, row |-> table[from][1]]>> \o RowsOf(table, user_id, from - 1)
    ELSE RowsOf(table, user_id, from - 1)

\* an answer of the API
Answer(op, user_id, preference_id, status, body) ==
    <<[op |-> op, user_id |-> user_id, id |-> preference_id, status |-> status, body |-> body]>>

\* GET /preferences
list_preferences(current_user) ==
    /\ pc = "prefs"
    /\ pref_response' = Answer("list", current_user, 0, 200,
                               RowsOf(pref_table, current_user, MaxPrefs))
    /\ UNCHANGED <<pc, timeVars, pvpVars, fcVars, matchVars, rankVars, limVars, cycleVars,
                   nlpVars, wsVars, pref_table, pref_next_id>>

\* POST /preferences
create_preference(current_user, preference_data) ==
    /\ pc = "prefs"
    /\ pref_next_id <= MaxPrefs
    /\ LET new_preference == [user_id |-> current_user, name |-> preference_data.name,
                              filters |-> preference_data.filters,
                              notify |-> preference_data.notify, is_active |-> TRUE]
       IN /\ pref_table' = [pref_table EXCEPT ![pref_next_id] = <<new_preference>>]
          /\ pref_response' = Answer("create", current_user, pref_next_id, 201,
                                     <<[id |-> pref_next_id, row |-> new_preference]>>)
    /\ pref_next_id' = pref_next_id + 1
    /\ UNCHANGED <<pc, timeVars, pvpVars, fcVars, matchVars, rankVars, limVars, cycleVars,
                   nlpVars, wsVars>>

\* GET /preferences/{preference_id}
get_preference(current_user, preference_id) ==
    /\ pc = "prefs"
    /\ LET preference == SelectById(pref_table, preference_id, current_user)
       IN pref_response' =
             IF preference = <<>>
             THEN Answer("get", current_user, preference_id, 404, <<>>)
             ELSE Answer("get", current_user, preference_id, 200,
                         <<[id |-> preference_id, row |-> preference[1]]>>)
    /\ UNCHANGED <<pc, timeVars, pvpVars, fcVars, matchVars, rankVars, limVars, cycleVars,
                   nlpVars, wsVars, pref_table, pref_next_id>>

\* lines 147-155: the fields of the body that are not None replace the row's
UpdatedRow(row, preference_data) ==
    [user_id |-> row.user_id,
     name |-> Get(preference_data.name, row.name),
     filters |-> Get(preference_data.filters, row.filters),
     notify |-> Get(preference_data.notify, row.notify),
     is_active |-> Get(preference_data.is_active, row.is_active)]

\* PUT /preferences/{preference_id}
update_preference(current_user, preference_id, preference_data) ==
    /\ pc = "prefs"
    /\ LET preference == SelectById(pref_table, preference_id, current_user)
       IN IF preference = <<>>
          THEN /\ pref_response' = Answer("update", current_user, preference_id, 404, <<>>)
               /\ pref_table' = pref_table
          ELSE /\ pref_table' = [pref_table EXCEPT ![preference_id] =
                                    <<UpdatedRow(preference[1], preference_data)>>]
               /\ pref_response' =
                     Answer("update", current_user, preference_id, 200,
                            <<[id |-> preference_id,
                               row |-> UpdatedRow(preference[1], preference_data)]>>)
    /\ UNCHANGED <<pc, timeVars, pvpVars, fcVars, matchVars, rankVars, limVars, cycleVars,
                   nlpVars, wsVars, pref_next_id>>

\* DELETE /preferences/{preference_id}
delete_preference(current_user, preference_id) ==
    /\ pc = "prefs"
    /\ LET preference == SelectById(pref_table, preference_id, current_user)
       IN IF preference = <<>>
          THEN /\ pref_response' = Answer("delete", current_user, preference_id, 404, <<>>)
               /\ pref_table' = pref_table
          ELSE /\ pref_table' = [pref_table EXCEPT ![preference_id] = <<>>]
               /\ pref_response' = Answer("delete", current_user, preference_id, 204, <<>>)
    /\ UNCHANGED <<pc, timeVars, pvpVars, fcVars, matchVars, rankVars, limVars, cycleVars,
                   nlpVars, wsVars, pref_next_id>>

PrefIdle ==
    /\ pref_table = [id \in PrefIds |-> <<>>]
    /\ pref_next_id = 1
    /\ pref_response = <<>>

\* api/websocket.py and api/preferences.py before any connection and request
BackendIdle == WsIdle /\ PrefIdle

----------------------------------------------------------------------------
(* Specifications *)

ClockInit ==
    /\ last_request_age = [d \in Domains |-> MinInterval]
    /\ last_issue_age = [d \in Domains |-> -1]
    /\ last_gap = [d \in Domains |-> MinInterval]

PvpInit ==
    /\ pvp_page = 0
    /\ pvp_failures = 0
    /\ request_count = 0
    /\ pvp_total = 0
    /\ pvp_reason = ""
    /\ pvp_log = <<>>
    /\ pvp_got403 = FALSE
    /\ pvp_published = {}
    /\ pvp_requests = <<>>
    /\ pvp_scraped = <<>>
    /\ pvp_handed = <<>>
    /\ pvp_publish_ok = 0
    /\ pvp_publish_failed = 0

FcInit ==
    /\ pvp_auctions = <<>>
    /\ fc_page = 1
    /\ fc_attempt = 0
    /\ fc_failures = 0
    /\ fc_last_request = <<>>
    /\ fc_listing = <<>>
    /\ fc_auctions = <<>>
    /\ fc_total = 0
    /\ fc_enrichments = 0
    /\ fc_reason = ""
    /\ fc_log = <<>>
    /\ fc_results = <<>>
    /\ fc_published_ids = {}
    /\ fc_merged = {}
    /\ fc_remerged = {}

MatchIdle ==
    /\ m_primary = <<>>
    /\ m_candidate = <<>>
    /\ m_min_score = -1
    /\ m_result = <<>>
    /\ m_accepted = <<>>
    /\ m_merged = <<>>
    /\ m_merged2 = <<>>

RankIdle ==
    /\ r_data = <<>>
    /\ r_weights = <<>>
    /\ r_result = <<>>

LimIdle ==
    /\ t_pc = [t \in FetchPaths |-> "idle"]
    /\ t_sleep = [t \in FetchPaths |-> 0]

CycleIdle ==
    /\ cycle_waited = 0
    /\ stop_signal = FALSE

NlpIdle ==
    /\ p_text = <<>>
    /\ p_result = <<>>
    /\ n_input = <<>>
    /\ n_result = <<>>

\* PVPScraper.run(max_pages) on a fresh PVPScraper
InitPvp ==
    /\ pc = "pvp_run"
    /\ ClockInit
    /\ pvp_max_pages \in 0..MaxPvpPages
    /\ PvpInit
    /\ fc_max_pages = MaxFcPages
    /\ FcInit
    /\ MatchIdle
    /\ RankIdle
    /\ LimIdle
    /\ CycleIdle
    /\ BackendIdle
    /\ NlpIdle

NextPvp ==
    \/ \E resp \in PvpResponses, delay \in RandomDelays, refused \in NlpRefusals :
          PvpPage(resp, delay, refused)
    \/ PvpLoopEnd

SpecPvp == InitPvp /\ [][NextPvp]_vars

\* FallcoasteScraper.run(max_pages, enrichment_mode=True) on a fresh
\* FallcoasteScraper, its rate limiter empty
InitFc ==
    /\ pc = "fc_start"
    /\ ClockInit
    /\ pvp_max_pages = 0
    /\ PvpInit
    /\ fc_max_pages = MaxFcPages
    /\ FcInit
    /\ MatchIdle
    /\ RankIdle
    /\ LimIdle
    /\ CycleIdle
    /\ BackendIdle
    /\ NlpIdle

NextFc ==
    \/ \E items \in BackendResults : FcFetchPvpAuctions(items)
    \/ FcFetchPage
    \/ \E outcome \in FcOutcomes, jitter \in {0, 1} :
          \E content \in (IF outcome = "200" THEN FcContents ELSE {<<>>}),
             jitter2 \in (IF outcome \in {"429", "timeout", "client"} THEN {0, 1} ELSE {0}) :
             FcAttempt(outcome, content, jitter, jitter2)
    \/ \E detail \in DetailResults : FcDetail(detail)
    \/ \E jitter \in {0, (SCRAPER_DELAY_MS \div 1000) \div 2} : FcProcessPage(jitter)
    \/ FcLoopEnd

SpecFc == InitFc /\ [][NextFc]_vars

\* a run of either ingestor
Init == InitPvp \/ InitFc

Next == NextPvp \/ NextFc

Spec == Init /\ [][Next]_vars

\* the positions at which a run is suspended in an await (a sleep, the rate
\* limiter, a request, a publish)
RunningPcs == {"pvp_run", "fc_start", "fc_page", "fc_attempt", "fc_parse"}

\* the exception classes named by the handlers that enclose those awaits
RunHandlers ==
    {"Exception", "asyncio.TimeoutError", "aiohttp.ClientError", "aiohttp.ClientResponseError"}

\* handlers that catch whatever is raised, as a bare `except:` does
Catches_everything(handler, exc) == TRUE

\* `except handler` catches exc: a class catches itself and its subclasses;
\* asyncio.CancelledError derives from BaseException and from none of the
\* classes the handlers name
Catches(handler, exc) ==
    \/ exc = handler
    \/ handler = "Exception"
         /\ exc \in {"asyncio.TimeoutError", "aiohttp.ClientError", "aiohttp.ClientResponseError"}
    \/ handler = "aiohttp.ClientError" /\ exc = "aiohttp.ClientResponseError"

\* the task of the run is cancelled while it is suspended: CancelledError is
\* raised at the await; a handler that catches it lets the loop go on, and
\* otherwise it leaves run and run_unified_scraper
Cancel ==
    /\ pc \in RunningPcs
    /\ ~stop_signal
    /\ stop_signal' = TRUE
    /\ pc' = IF \E h \in RunHandlers : Catches(h, "asyncio.CancelledError") THEN pc ELSE "cancelled"
    /\ UNCHANGED <<timeVars, pvpVars, fcVars, matchVars, rankVars, limVars, cycle_waited, nlpVars,
                   wsVars, prefVars>>

NextStop == Next \/ Cancel

\* either run, with a cancellation at any await
SpecStop == Init /\ [][NextStop]_vars

\* run_unified_scraper: the primary run, the cooldown, the secondary run
NextCycle == NextPvp \/ Cooldown \/ NextFc

\* a cycle with short page budgets for both runs
InitCycle ==
    /\ pc = "pvp_run"
    /\ ClockInit
    /\ pvp_max_pages \in 0..MaxCyclePages
    /\ PvpInit
    /\ fc_max_pages = MaxCyclePages
    /\ FcInit
    /\ MatchIdle
    /\ RankIdle
    /\ LimIdle
    /\ CycleIdle
    /\ BackendIdle
    /\ NlpIdle

SpecCycle == InitCycle /\ [][NextCycle]_vars

\* the reconciler on any candidate and any primary set of the catalogues
InitMatch ==
    /\ pc = "match"
    /\ ClockInit
    /\ pvp_max_pages = 0
    /\ PvpInit
    /\ fc_max_pages = 0
    /\ FcInit
    /\ m_primary \in ListsUpTo(PrimaryCatalogue, MaxPrimaries)
    /\ m_candidate \in CandidateCatalogue
    /\ m_min_score = -1
    /\ m_result = <<>>
    /\ m_accepted = <<>>
    /\ m_merged = <<>>
    /\ m_merged2 = <<>>
    /\ RankIdle
    /\ LimIdle
    /\ CycleIdle
    /\ BackendIdle
    /\ NlpIdle

NextMatch ==
    \/ \E t \in Thresholds : Match(t)
    \/ \E k \in 1..MaxPrimaries + 1 : Merge(k)

SpecMatch == InitMatch /\ [][NextMatch]_vars

\* the ranking engine on any record and any weights of the catalogues
InitRank ==
    /\ pc = "rank"
    /\ ClockInit
    /\ pvp_max_pages = 0
    /\ PvpInit
    /\ fc_max_pages = 0
    /\ FcInit
    /\ MatchIdle
    /\ r_data \in RankRecords
    /\ r_weights \in WeightSets
    /\ r_result = <<>>
    /\ LimIdle
    /\ CycleIdle
    /\ BackendIdle
    /\ NlpIdle

NextRank == Score

SpecRank == InitRank /\ [][NextRank]_vars

\* two fetch paths of the secondary source share a fresh RateLimiter
InitLimiter ==
    /\ pc = "limiter"
    /\ ClockInit
    /\ pvp_max_pages = 0
    /\ PvpInit
    /\ fc_max_pages = 0
    /\ FcInit
    /\ MatchIdle
    /\ RankIdle
    /\ LimIdle
    /\ CycleIdle
    /\ BackendIdle
    /\ NlpIdle

NextLimiter ==
    \/ \E t \in FetchPaths : LimCall(t)
    \/ LimTick
    \/ \E t \in FetchPaths : LimWake(t)
    \/ \E t \in FetchPaths : LimResponse(t)

SpecLimiter == InitLimiter /\ [][NextLimiter]_vars

\* the price parsers on any price written the Italian way
InitPrice ==
    /\ pc = "price"
    /\ ClockInit
    /\ pvp_max_pages = 0
    /\ PvpInit
    /\ fc_max_pages = 0
    /\ FcInit
    /\ MatchIdle
    /\ RankIdle
    /\ LimIdle
    /\ CycleIdle
    /\ BackendIdle
    /\ \E euros \in PriceEuros, cents \in PriceCents, symbol \in BOOLEAN :
          p_text = [text |-> ItalianPrice(euros, cents, symbol),
                    value |-> PriceValue(euros, cents)]
    /\ p_result = <<>>
    /\ n_input = <<>>
    /\ n_result = <<>>

NextPrice == ParsePrices

SpecPrice == InitPrice /\ [][NextPrice]_vars

\* POST /process with a record of the primary run, or with a primary record
\* enriched by an accepted match of the secondary run
InitProcess ==
    /\ pc = "process"
    /\ ClockInit
    /\ pvp_max_pages = 0
    /\ PvpInit
    /\ fc_max_pages = 0
    /\ FcInit
    /\ MatchIdle
    /\ RankIdle
    /\ LimIdle
    /\ CycleIdle
    /\ BackendIdle
    /\ p_text = <<>>
    /\ p_result = <<>>
    /\ \/ \E title \in LotTitles, price \in ProviderPrices :
             /\ PvpItemKept(PvpLot(JNum(101), title, price))
             /\ n_input = [source |-> "pvp",
                           body |-> PvpBody(PvpAuctionData(PvpLot(JNum(101), title, price))),
                           price |-> ProviderNumber(price)]
       \/ \E candidate \in CandidateCatalogue, primary \in PrimaryCatalogue,
             title \in LotTitles :
             \E enriched \in RunPublish(candidate, <<primary>>) :
                n_input = [source |-> "fallcoaste",
                           body |-> EnrichedBody(enriched, title),
                           price |-> <<>>]
    /\ n_result = <<>>

NextProcess == \E status \in BackendStatuses : process_auction(status)

SpecProcess == InitProcess /\ [][NextProcess]_vars

\* the connections, the users and the broadcasts at work
InitWs ==
    /\ pc = "ws"
    /\ ClockInit
    /\ pvp_max_pages = 0
    /\ PvpInit
    /\ fc_max_pages = 0
    /\ FcInit
    /\ MatchIdle
    /\ RankIdle
    /\ LimIdle
    /\ CycleIdle
    /\ NlpIdle
    /\ BackendIdle

NextWs ==
    \/ \E websocket \in WsSockets, token \in WsTokens : WsConnect(websocket, token)
    \/ \E websocket \in WsSockets, ok \in BOOLEAN : WsAccept(websocket, ok)
    \/ \E websocket \in WsSockets, event \in WsEvents : WsReceive(websocket, event)
    \/ \E task \in WsTasks, user_id \in WsUsers : WsBroadcastStart(task, user_id)
    \/ \E task \in WsTasks, ok \in BOOLEAN : WsBroadcastSend(task, ok)

SpecWs == InitWs /\ [][NextWs]_vars

\* requests of the users to the preferences API
InitPrefs ==
    /\ pc = "prefs"
    /\ ClockInit
    /\ pvp_max_pages = 0
    /\ PvpInit
    /\ fc_max_pages = 0
    /\ FcInit
    /\ MatchIdle
    /\ RankIdle
    /\ LimIdle
    /\ CycleIdle
    /\ NlpIdle
    /\ BackendIdle

NextPrefs ==
    \/ \E current_user \in PrefUsers : list_preferences(current_user)
    \/ \E current_user \in PrefUsers, preference_data \in PrefCreates :
          create_preference(current_user, preference_data)
    \/ \E current_user \in PrefUsers, preference_id \in PrefIds :
          get_preference(current_user, preference_id)
    \/ \E current_user \in PrefUsers, preference_id \in PrefIds, preference_data \in PrefUpdates :
          update_preference(current_user, preference_id, preference_data)
    \/ \E current_user \in PrefUsers, preference_id \in PrefIds :
          delete_preference(current_user, preference_id)

SpecPrefs == InitPrefs /\ [][NextPrefs]_vars

----------------------------------------------------------------------------
(* Properties of the two runs *)

\* C1: no two HTTP requests to the same domain are issued less than
\* delay_ms apart, whether they are listing, detail or retry requests
C1_MinimumInterval ==
    \A d \in Domains : last_gap[d] = -1 \/ last_gap[d] >= MinInterval

\* the number of pages at the end of a page log that failed
RECURSIVE Streak(_)
Streak(log) ==
    IF log = <<>> \/ log[Len(log)] # "fail" THEN 0
    ELSE 1 + Streak(SubSeq(log, 1, Len(log) - 1))

\* C2: once the primary run has received a 403 it is over, its closing
\* reason is the ban, and it issues no further request
C2_BanStopsRun ==
    /\ [](pvp_got403 => pc = "cooldown" /\ pvp_reason = "banned_or_rate_limited")
    /\ [][pvp_got403 => request_count' = request_count]_vars

\* a 403 answered the first failing page of a primary run that had pages left
C2_Witness ==
    /\ pvp_got403
    /\ pc = "cooldown"
    /\ pvp_failures = 1
    /\ request_count >= 2
    /\ pvp_page + 1 < pvp_max_pages

\* C3: once 2 (primary) or 3 (secondary) consecutive pages have failed, the
\* run has stopped and no further page is requested
C3_FailureCeiling ==
    /\ [](Streak(pvp_log) >= pvp_max_consecutive_failures => pc = "cooldown")
    /\ [](Streak(fc_log) >= fc_max_consecutive_failures => pc = "done")
    /\ [][Streak(pvp_log) >= pvp_max_consecutive_failures
             => request_count' = request_count]_vars
    /\ [][Streak(fc_log) >= fc_max_consecutive_failures
             => fc_last_request' = fc_last_request]_vars

\* a secondary run stopped by three failed pages in a row, with pages left
C3_Witness ==
    /\ pc = "done"
    /\ Streak(fc_log) = fc_max_consecutive_failures
    /\ fc_page < fc_max_pages

\* the external_ids of the primary set the secondary run works on
PrimaryIds == {pvp_auctions[k].external_id : k \in 1..Len(pvp_auctions)}

\* no primary record reaches the threshold of the run for this auction
BelowThreshold(auction) ==
    \A k \in 1..Len(pvp_auctions) :
        FracLt(calculate_match_score(pvp_auctions[k], auction), Pct(RunMinScore))

\* C4: every record the secondary run publishes carries the external_id of
\* a primary record, and for a candidate below the threshold nothing is published
C4_NeverCreates ==
    /\ fc_published_ids \subseteq PrimaryIds
    /\ \A i \in 1..Len(fc_results) :
          /\ \A r \in fc_results[i].published : r.external_id \in PrimaryIds
          /\ BelowThreshold(fc_results[i].auction) => fc_results[i].published = {}

\* a page with one auction merged and one auction discarded
C4_Witness ==
    \E i, j \in 1..Len(fc_results) :
        /\ fc_results[i].published # {}
        /\ BelowThreshold(fc_results[j].auction)
        /\ fc_results[j].published = {}

\* C5: within one pass each secondary item is merged into at most one
\* primary record and each primary record receives at most one merge
C5_OneMergeEach ==
    /\ \A i \in 1..Len(fc_results) : Cardinality(fc_results[i].published) <= 1
    /\ fc_remerged = {}

----------------------------------------------------------------------------
(* Properties of match and merge *)

\* the optional fields of a primary record that a candidate also carries
TextFields == {"address", "court", "base_price"}
MediaFields == {"photos", "floor_plans", "documents"}
CoordinateFields == {"latitude", "longitude"}

\* C6: merge leaves every populated field of the primary record as it was,
\* external_id, coordinates, photos, floor plans and documents included
C6_NonDestructive ==
    \A i \in 1..Len(m_merged) :
        LET before == m_merged[i].primary
            after == m_merged[i].merged
        IN /\ after.external_id = before.external_id
           /\ after.city = before.city
           /\ before.auction_date # NoDate => after.auction_date = before.auction_date
           /\ \A f \in TextFields \cup MediaFields \cup CoordinateFields :
                 before[f] # <<>> => after[f] = before[f]

\* C7 as stated: every field that was empty on the primary record is filled
\* if and only if the candidate has a value for it
C7_FillsEveryEmptyField ==
    \A i \in 1..Len(m_merged) :
        \A f \in TextFields \cup MediaFields \cup CoordinateFields :
            m_merged[i].primary[f] = <<>> =>
                (m_merged[i].merged[f] # <<>> <=> m_candidate[f] # <<>>)

\* C7, amended: an empty media list is filled if and only if the candidate
\* has one; an empty coordinate is filled if and only if the candidate has
\* both coordinates; no other empty field is filled
C7_FillsMediaAndCoordinates ==
    \A i \in 1..Len(m_merged) :
        LET before == m_merged[i].primary
            after == m_merged[i].merged
            both == Truthy(m_candidate.latitude) /\ Truthy(m_candidate.longitude)
        IN /\ \A f \in MediaFields : before[f] = <<>> => after[f] = m_candidate[f]
           /\ \A f \in CoordinateFields :
                 before[f] = <<>> => after[f] = IF both THEN m_candidate[f] ELSE <<>>
           /\ \A f \in TextFields : before[f] = <<>> => after[f] = <<>>

\* a merge that filled an empty media list and left an empty latitude empty
\* because the candidate had a latitude without a longitude
C7_Witness ==
    \E i \in 1..Len(m_merged) :
        /\ m_merged[i].primary.latitude = <<>>
        /\ m_candidate.latitude # <<>>
        /\ m_candidate.longitude = <<>>
        /\ m_merged[i].merged.latitude = <<>>
        /\ m_merged[i].primary.documents = <<>>
        /\ m_merged[i].merged.documents = m_candidate.documents

\* the scores of the candidate against the primary set
Scores == {calculate_match_score(m_primary[k], m_candidate) : k \in 1..Len(m_primary)}

\* the highest of them
MaxScore == CHOOSE x \in Scores : \A y \in Scores : FracLeq(y, x)

\* the result is a primary record of the highest score, with that score
ReturnsBest ==
    /\ m_result # <<>>
    /\ \E k \in 1..Len(m_primary) : m_result[1].match = m_primary[k]
    /\ FracEq(calculate_match_score(m_result[1].match, m_candidate), MaxScore)
    /\ FracEq(m_result[1].score, MaxScore)

\* C8 as stated: match returns the primary record of the highest score, with
\* that score, if and only if the highest score is at least minScore; else none
C8_BestAtOrAboveThreshold ==
    m_min_score >= 0 =>
        IF m_primary # <<>> /\ FracLeq(Pct(m_min_score), MaxScore)
        THEN ReturnsBest ELSE m_result = <<>>

\* C8, amended: match returns the primary record of the highest score, with
\* that score, if and only if the highest score is at least minScore and
\* above zero; else none
C8_BestAboveZero ==
    m_min_score >= 0 =>
        IF m_primary # <<>> /\ FracLeq(Pct(m_min_score), MaxScore)
                            /\ FracLt(Frac(0, 1), MaxScore)
        THEN ReturnsBest ELSE m_result = <<>>

\* the second record of the set was returned although the first one reached
\* the threshold too
C8_Witness ==
    /\ m_min_score >= 0
    /\ Len(m_primary) >= 2
    /\ m_result # <<>>
    /\ m_result[1].match = m_primary[2]
    /\ FracLeq(Pct(m_min_score), calculate_match_score(m_primary[1], m_candidate))
    /\ FracLt(calculate_match_score(m_primary[1], m_candidate), m_result[1].score)

\* C9: a candidate accepted at a threshold is accepted at every lower one
C9_ThresholdMonotonic ==
    m_accepted # <<>> =>
        \A lo, hi \in Thresholds : lo <= hi /\ m_accepted[hi] => m_accepted[lo]

\* a candidate accepted at one threshold and refused at a higher one
C9_Witness ==
    /\ m_accepted # <<>>
    /\ \E lo, hi \in Thresholds : lo < hi /\ m_accepted[lo] /\ ~m_accepted[hi]
    /\ \E t \in Thresholds : t > 0 /\ m_accepted[t]

----------------------------------------------------------------------------
(* Properties of the ranking engine *)

\* a rounded score within [0, 100], in hundredths
InRange(x) == 0 <= x /\ x <= 10000

\* C10: for every record and the weights in use, the overall score and each
\* of the five sub-scores of the breakdown are within [0, 100]
C10_ScoresInRange ==
    \A i \in 1..Len(r_result) :
        /\ InRange(r_result[i].overall_score)
        /\ \A k \in DOMAIN r_result[i].breakdown : InRange(r_result[i].breakdown[k])

\* a record whose legal points add up below zero, scored with weights that
\* add up to five
C10_Witness ==
    /\ r_result # <<>>
    /\ LegalPoints(r_data) < 0
    /\ r_result[1].breakdown.legal_complexity = 0
    /\ r_weights.price_discount + r_weights.location_score + r_weights.property_condition
           + r_weights.legal_complexity + r_weights.liquidity_potential > 100
    /\ r_result[1].overall_score = 10000

----------------------------------------------------------------------------
(* Properties of the configuration of the ranking engine *)

\* the sum of the five weights, in percent
WeightSum(weights) ==
    weights.price_discount + weights.location_score + weights.property_condition
        + weights.legal_complexity + weights.liquidity_potential

\* C11: a score is produced only with weights that sum to 1.0; weights
\* with any other sum are rejected and score nothing
C11_FailsClosed ==
    r_result # <<>> => WeightSum(r_weights) = 100

----------------------------------------------------------------------------
(* Properties of the publish loop of the primary run *)

Last(s) == s[Len(s)]

\* C12: a publish that fails never ends the run: every auction of the page
\* is still handed to publish, each exactly once, and after a page that
\* was scraped the run goes on to the next page unless the page budget is used up
C12_FailedPublishKeepsRunning ==
    /\ pvp_handed = pvp_scraped
    /\ pvp_publish_ok + pvp_publish_failed = pvp_total
    /\ (pvp_log # <<>> /\ Last(pvp_log) = "ok") =>
          IF pvp_reason = ""
          THEN pc = "pvp_run" /\ pvp_page = Len(pvp_log)
          ELSE pvp_reason = "scraping_completed" /\ pvp_page = pvp_max_pages

\* the publish of "101" failed on two pages; "102" was published after it and
\* the second page was requested after the first failure
C12_Witness ==
    /\ Len(pvp_requests) = 2
    /\ pvp_handed = <<"101", "102">>
    /\ pvp_publish_failed = 2
    /\ pvp_publish_ok = 1

----------------------------------------------------------------------------
(* Properties of the retries of the primary run *)

\* C13: a request of the primary source answered with 429 or 5xx is
\* retried: the request that follows it is for the same page
C13_RetriesSameRequest ==
    \A i \in 1..(Len(pvp_requests) - 1) :
        pvp_requests[i].status \in {429, 500} =>
            pvp_requests[i + 1].page = pvp_requests[i].page

----------------------------------------------------------------------------
(* Properties of the rate limiter under concurrent callers *)

\* C14: when two fetch paths call the rate limiter for one domain at the
\* same time, their requests still go out at least the minimum interval apart
C14_ConcurrentCallersSpaced ==
    pc = "limiter" => (last_gap[FALLCOASTE] = -1 \/ last_gap[FALLCOASTE] >= MinInterval)

----------------------------------------------------------------------------
(* Properties of the run cycle *)

\* the secondary run has been entered
SecondaryStarted == pc \notin {"pvp_run", "cooldown"}

\* C15: the two runs follow each other: the secondary run starts, and sends
\* its first request, only when the primary run is over, with or without an
\* error, and the cooldown has been slept; the primary run sends no request
\* once the secondary run has started
C15_RunsInSequence ==
    /\ [](SecondaryStarted \/ last_issue_age[FALLCOASTE] # -1 \/ pvp_auctions # <<>>
            => pvp_reason # "" /\ cycle_waited >= SOURCE_COOLDOWN)
    /\ [][request_count' # request_count
            => pc = "pvp_run" /\ last_issue_age[FALLCOASTE] = -1 /\ cycle_waited = 0]_vars

\* the primary run ended with an error and the secondary run then fetched pages
C15_Witness ==
    /\ pvp_reason = "UnboundLocalError"
    /\ last_issue_age[FALLCOASTE] # -1
    /\ cycle_waited = SOURCE_COOLDOWN
    /\ pc = "done"

----------------------------------------------------------------------------
(* Properties of stopping a run *)

\* C16: a stop raised while a run is waiting ends the run there: the wait
\* is abandoned and no request of either source is issued afterwards
C16_StopHonoured ==
    /\ [](stop_signal => pc = "cancelled")
    /\ [][stop_signal => UNCHANGED <<request_count, pvp_requests, fc_last_request, fc_log,
                                     last_issue_age, pvp_auctions>>]_vars

\* a secondary run stopped in the middle of the retries of a page
C16_Witness ==
    /\ stop_signal
    /\ pc = "cancelled"
    /\ fc_attempt > 0
    /\ fc_last_request # <<>>

\* a primary run stopped between two pages
C16_WitnessPrimary ==
    /\ stop_signal
    /\ pc = "cancelled"
    /\ request_count = 1
    /\ pvp_page < pvp_max_pages

----------------------------------------------------------------------------
(* Properties of the paging of the primary run *)

\* C17: the primary run asks for the pages 0, 1, 2, ... in order, and a page
\* with zero items is the last page it asks for
C17_StopsAtEmptyPage ==
    /\ \A i \in 1..Len(pvp_requests) : pvp_requests[i].page = i - 1
    /\ \A i \in 1..(Len(pvp_requests) - 1) :
          ~(pvp_requests[i].status = 200 /\ pvp_requests[i].items = 0)

\* a page of the primary run that counts as a failure: no response, an
\* error status, or zero items
PageFailed(r) == r.status # 200 \/ r.items = 0

\* C17 as amended: the primary run asks for the pages 0, 1, 2, ... in order
\* and within its page budget; it asks for no page after two pages in a row
\* that failed or had zero items, and after a single page with zero items it
\* is still running while pages are left
C17_StopsAtSecondEmptyPage ==
    /\ \A i \in 1..Len(pvp_requests) : pvp_requests[i].page = i - 1
    /\ Len(pvp_requests) <= pvp_max_pages
    /\ \A i \in 2..(Len(pvp_requests) - 1) :
          ~(PageFailed(pvp_requests[i - 1]) /\ PageFailed(pvp_requests[i]))
    /\ (/\ pvp_requests # <<>>
        /\ Last(pvp_requests).status = 200
        /\ Last(pvp_requests).items = 0
        /\ Streak(pvp_log) = 1
        /\ pvp_page < pvp_max_pages) => pc = "pvp_run"

\* a page with zero items, then the next page fetched with an item on it
C17_Witness ==
    /\ Len(pvp_requests) = 2
    /\ pvp_requests[1].status = 200
    /\ pvp_requests[1].items = 0
    /\ pvp_requests[2].items > 0

----------------------------------------------------------------------------
(* Properties of the records of the primary run *)

\* the external_ids a provider item can carry: the ids of the catalogue
ProviderIds == {"101", "102", "105"}

\* C18: every auction of the primary run carries the id the provider gave
\* it; an item whose id is missing, null or empty is never published
C18_PublishedHaveProviderId ==
    pvp_published \subseteq ProviderIds

\* C19: an item that has an id is emitted whatever becomes of its price, its
\* date and its round: a value that cannot be converted leaves the field unset
C19_BadFieldKeepsRecord ==
    (pvp_requests # <<>> /\ Last(pvp_requests).status = 200) =>
        \A i \in 1..Len(Last(pvp_requests).content) :
            PvpExternalId(Last(pvp_requests).content[i]) # "" =>
                \E j \in 1..Len(pvp_scraped) :
                    pvp_scraped[j] = PvpExternalId(Last(pvp_requests).content[i])

\* C20: the published count of the primary run is the number of publishes
\* that succeeded; a publish that failed is not counted as published
C20_PublishedCountsSuccesses ==
    pvp_total = pvp_publish_ok

----------------------------------------------------------------------------
(* Properties of the price parsers *)

\* C21: for a price written with "." between thousands and "," before the
\* cents, every price parser returns the number the text stands for
C21_ParsersAgreeWithText ==
    p_result # <<>> =>
        /\ p_result[1].normalize_price = <<p_text.value>>
        /\ p_result[1].parse_price = <<p_text.value>>
        /\ p_result[1].extract_price = <<p_text.value>>

----------------------------------------------------------------------------
(* Properties of the /process pipeline *)

\* the record process_auction scored and the one it posted to the backend
Scored == n_result[1].scored[1]
Posted == n_result[1].posted[1]
ProcessedOk == n_result # <<>> /\ n_result[1].status = 200

\* C22: after the pipeline has run on a record, its base_price is absent or
\* between 1,000 and 100,000,000, in the scored record and in the saved one
C22_BasePriceInBand ==
    ProcessedOk =>
        /\ Scored.base_price = <<>> \/ InBand(Scored.base_price[1])
        /\ Posted.base_price = <<>> \/ InBand(Posted.base_price[1])

\* the fields a merge adds to a primary record
MergeFields == {"latitude", "longitude", "photos", "floor_plans", "documents", "meta"}

\* C29: the fields an accepted merge added to a primary record are in the
\* record delivered to the backend after publish, process and save
C29_MergedFieldsDelivered ==
    (n_result # <<>> /\ n_input.source = "fallcoaste") =>
        /\ n_result[1].status = 200
        /\ \A f \in MergeFields : DictGet(Posted, f) = n_input.body[f]

\* a text without a digit holds no price
FreeOfPrice(text) == \A i \in 1..Len(text) : ~IsDigit(text[i])

\* C30: for a record of the primary ingestor whose provider price is the
\* number p and whose text holds no price, the base_price that is scored and
\* saved is p
C30_ProviderPriceKept ==
    (/\ n_result # <<>>
     /\ n_input.source = "pvp"
     /\ n_input.price # <<>>
     /\ FreeOfPrice(TextOf(n_input.body.title))) =>
        /\ n_result[1].status = 200
        /\ Scored.base_price = n_input.price
        /\ Posted.base_price = n_input.price

----------------------------------------------------------------------------
(* Properties of the secondary run's fetches *)

\* a step in which a listing-page request of the secondary run is answered 403
ListingAnswered403 ==
    \E jitter \in {0, 1} : FcAttempt("403", <<>>, jitter, 0)

\* C23: a 403 answer to a listing-page request is a ban: the request is not
\* retried and the run issues no further request, that is, the run is over
C23_BanEndsRun ==
    [][ListingAnswered403 => pc' = "done"]_vars

\* a step in which a detail page is requested
DetailRequested == \E detail \in DetailResults : FcDetail(detail)

\* C24: a detail-page request goes out at least the minimum interval after
\* the previous request to the domain, listing page or detail page
C24_DetailAfterInterval ==
    [][DetailRequested => last_gap'[FALLCOASTE] >= MinInterval]_vars

----------------------------------------------------------------------------
(* Properties of the failure counters *)

\* the reasons for which a run stops on its failure counter
CounterStops ==
    {"too_many_consecutive_failures", "too_many_consecutive_errors",
     "fallcoaste_too_many_failures", "fallcoaste_too_many_empty_pages"}

\* C25: the consecutive-failure counter of a run stays between 0 and its
\* ceiling, every page that yields a record resets it to 0, and a run stops
\* on the counter only after that many failed pages in a row
C25_FailureCounter ==
    /\ [](/\ pvp_failures \in 0..pvp_max_consecutive_failures
          /\ fc_failures \in 0..fc_max_consecutive_failures)
    /\ [][(Len(pvp_requests') > Len(pvp_requests) /\ Last(pvp_requests').items > 0)
             => pvp_failures' = 0]_vars
    /\ [][fc_total' > fc_total => fc_failures' = 0]_vars
    /\ [](pvp_reason \in CounterStops => Streak(pvp_log) >= pvp_max_consecutive_failures)
    /\ [](fc_reason \in CounterStops => Streak(fc_log) >= fc_max_consecutive_failures)

\* a primary run still going after two failed pages with a good one between them
C25_Witness ==
    /\ pvp_log = <<"fail", "ok", "fail">>
    /\ pvp_failures = 1
    /\ pc = "pvp_run"
    /\ pvp_reason = ""

----------------------------------------------------------------------------
(* Properties of the page budget of the primary run *)

\* C26: for every page budget and every sequence of responses, the primary
\* run returns without an exception after at most max_pages page requests,
\* the page indices requested being strictly increasing
C26_RunReturnsWithinBudget ==
    /\ pvp_reason # "UnboundLocalError"
    /\ Len(pvp_requests) <= pvp_max_pages
    /\ request_count = Len(pvp_requests)
    /\ \A i, j \in 1..Len(pvp_requests) : i < j => pvp_requests[i].page < pvp_requests[j].page

----------------------------------------------------------------------------
(* Properties of fetch_page *)

\* a step in which fetch_page issues a request for its listing page
ListingRequested ==
    \E outcome \in FcOutcomes, jitter \in {0, 1}, content \in FcContents \cup {<<>>},
       jitter2 \in {0, 1} : FcAttempt(outcome, content, jitter, jitter2)

\* a step in which that request is answered 200 with this content
ListingAnswered200(content) == \E jitter \in {0, 1} : FcAttempt("200", content, jitter, 0)

\* C27: fetch_page issues at most max_retries requests for one listing page,
\* returns the HTML of the first attempt answered 200, and returns None
\* without raising when all the attempts failed
C27_FetchPageBounded ==
    /\ [](fc_attempt \in 0..(max_retries - 1))
    /\ [][ListingRequested =>
            \/ pc' = "fc_attempt" /\ fc_attempt' = fc_attempt + 1
            \/ pc' = "fc_parse" /\ fc_attempt' = fc_attempt
            \/ /\ fc_attempt = max_retries - 1
               /\ fc_attempt' = 0
               /\ fc_failures' = fc_failures + 1
               /\ fc_reason' \in {"", "fallcoaste_too_many_failures"}]_vars
    /\ [][\A content \in FcContents :
             ListingAnswered200(content) => (pc' = "fc_parse" /\ fc_listing' = content)]_vars

\* a run given up because fetch_page returned None for three pages in a row
C27_Witness ==
    /\ pc = "done"
    /\ fc_reason = "fallcoaste_too_many_failures"
    /\ fc_log = <<"fail", "fail", "fail">>
    /\ fc_attempt = 0

----------------------------------------------------------------------------
(* Properties of the primary set during the secondary run *)

\* the fields a merge may fill in
FilledFields == {"photos", "floor_plans", "documents", "latitude", "longitude"}

\* the record was merged from this primary record and this secondary one
\* alone: each field a merge fills is the primary's or the secondary's
MergedFromAlone(r, primary, auction) ==
    /\ r.external_id = primary.external_id
    /\ \A f \in FilledFields : r[f] \in {primary[f], auction[f]}
    /\ r.meta.fallcoaste_url = auction.url

\* C28: merge leaves the primary record it is given as it was, and the
\* primary set fetched at the start of the secondary run stays the same
\* during the run: a later match or merge sees no earlier merge
C28_PrimarySetFrozen ==
    /\ [][pc # "fc_start" => pvp_auctions' = pvp_auctions]_vars
    /\ [](\A k \in 1..Len(pvp_auctions) : pvp_auctions[k].meta = NoMeta)
    /\ [](\A i \in 1..Len(fc_results) : \A r \in fc_results[i].published :
             \E k \in 1..Len(pvp_auctions) :
                MergedFromAlone(r, pvp_auctions[k], fc_results[i].auction))

\* a run in which a primary record has been merged into a second time
C28_Witness ==
    /\ fc_remerged # {}
    /\ fc_results # <<>>
    /\ \E i \in 1..Len(fc_results) : \E r \in fc_results[i].published :
          r.external_id \in fc_remerged

----------------------------------------------------------------------------
(* Properties of the match score *)

\* the days between the dates of two records, <<>> when one does not parse
DayDifference(pvp_auction, fallcoaste_auction) ==
    IF parse_date(pvp_auction.auction_date) = <<>> \/ parse_date(fallcoaste_auction.auction_date) = <<>>
    THEN <<>>
    ELSE <<Abs(DaysBetween(parse_date(pvp_auction.auction_date)[1],
                           parse_date(fallcoaste_auction.auction_date)[1]))>>

\* credit is what a graded date similarity gives for this difference, out of full
Graded(credit, full, difference) ==
    IF difference = <<>> \/ difference[1] > 30 THEN FracEq(credit, Frac(0, 1))
    ELSE IF difference[1] = 0 THEN FracEq(credit, full)
    ELSE FracLt(Frac(0, 1), credit) /\ FracLt(credit, full)

\* C31: the date similarity in the aggregate match score is graded: full
\* credit for the same day, a smaller positive credit for 1 to 7 days, a
\* smaller positive credit still for 8 to 30 days, and 0 beyond or for a date
\* that does not parse
C31_DateCreditGraded ==
    m_merged # <<>> =>
        /\ Graded(DateCredit(m_merged[1].primary.auction_date, m_candidate.auction_date),
                  Frac(25, 1), DayDifference(m_merged[1].primary, m_candidate))
        /\ \A k \in 1..Len(m_primary) :
              (/\ DayDifference(m_merged[1].primary, m_candidate) # <<>>
               /\ DayDifference(m_primary[k], m_candidate) # <<>>
               /\ DayDifference(m_merged[1].primary, m_candidate)[1] \in 1..7
               /\ DayDifference(m_primary[k], m_candidate)[1] \in 8..30)
              => FracLt(DateCredit(m_primary[k].auction_date, m_candidate.auction_date),
                        DateCredit(m_merged[1].primary.auction_date, m_candidate.auction_date))

\* the candidate under every identifier parse_auction_list may give it
CandidateIds == {"fallcoaste_1", "fallcoaste_9"}
PvpIds == {<<>>, <<"101">>, <<"102">>, <<"999">>}
IdVariants(candidate) ==
    {[candidate EXCEPT !.external_id = id, !.pvp_id = pvp_id] :
        id \in CandidateIds, pvp_id \in PvpIds}

\* C32: the match outcome does not depend on identifiers: a candidate that
\* differs only in external_id and pvp_id gets, for the same primary set and
\* threshold, the same primary record and the same score
C32_IdentifiersIgnored ==
    m_min_score >= 0 =>
        \A variant \in IdVariants(m_candidate) :
            find_best_match(variant, m_primary, Pct(m_min_score)) = m_result

\* a candidate matched to primary record 102 whatever primary record its
\* pvp_id names
C32_Witness ==
    /\ m_min_score = 70
    /\ m_result # <<>>
    /\ m_result[1].match.external_id = "102"
    /\ \E variant \in IdVariants(m_candidate) :
          /\ variant.pvp_id = <<"101">>
          /\ \E k \in 1..Len(m_primary) : m_primary[k].external_id = "101"

\* the primary record of the fetched set a published record was merged from
\* matches the auction in court, date and price
FullyMatched(r, auction) ==
    \E k \in 1..Len(pvp_auctions) :
        /\ pvp_auctions[k].external_id = r.external_id
        /\ FracEq(similarity_ratio(pvp_auctions[k].court, auction.court), Frac(1, 1))
        /\ dates_match(pvp_auctions[k].auction_date, auction.auction_date, 7)
        /\ prices_match(pvp_auctions[k].base_price, auction.base_price, 5)

\* C33: a candidate of parse_auction_list carries no address, so its score
\* against any primary record is at most 0.70, and it is accepted at the
\* default threshold only when the courts are the same and both the date
\* (within 7 days) and the price (within 5%) match
C33_ListingScoreCeiling ==
    \A i \in 1..Len(fc_results) :
        /\ fc_results[i].auction.address = <<>>
        /\ \A k \in 1..Len(pvp_auctions) :
              FracLeq(calculate_match_score(pvp_auctions[k], fc_results[i].auction),
                      Pct(RunMinScore))
        /\ \A r \in fc_results[i].published : FullyMatched(r, fc_results[i].auction)

\* a page with an auction accepted at a score of exactly 0.70 and one refused
C33_Witness ==
    /\ \E i \in 1..Len(fc_results) : \E r \in fc_results[i].published :
          FracEq(r.meta.enrichment_score[1], Pct(RunMinScore))
    /\ \E i \in 1..Len(fc_results) : fc_results[i].published = {}

----------------------------------------------------------------------------
(* Properties of the price-discount sub-score *)

\* price per square metre of the tier of a city
CityTierPrice(city) ==
    IF city \in {"Roma", "Milano", "Firenze", "Bologna", "Venezia"} THEN 3500
    ELSE IF city \in {"Torino", "Napoli", "Genova", "Palermo", "Bari"} THEN 2200
    ELSE 1500

\* surface * city-tier price per sqm * type multiplier, as an exact fraction
DerivedEstimate(data) ==
    Reduce(Frac(Get(data.surface_sqm, 80) * CityTierPrice(data.city)
                    * TypeMultiplier(Get(data.property_type, "Appartamento")), 100))

\* clamp(0, 100, ((estimate - basePrice) / estimate) * 200) in hundredths, and
\* the neutral 50 when the base price or the estimate is not positive
DiscountScore(base_price, estimate) ==
    IF base_price <= 0 \/ estimate.num <= 0 THEN 5000
    ELSE LET gain == estimate.num - base_price * estimate.den
         IN IF gain <= 0 THEN 0
            ELSE IF 2 * gain >= estimate.num THEN 10000
            ELSE Round2(Reduce(Frac(gain * 200, estimate.num)))

\* C34: the price-discount sub-score is the clamped discount on the estimate,
\* the estimate being the given one and the derived one when none is given,
\* and is 50 when base price or estimate is missing or not positive
C34_PriceDiscount ==
    r_result # <<>> =>
        r_result[1].breakdown.price_discount =
            DiscountScore(Get(r_data.base_price, 0),
                          IF r_data.estimated_value = <<>> THEN DerivedEstimate(r_data)
                          ELSE Frac(r_data.estimated_value[1], 1))

\* C34 (amended): the same with a given estimate of zero counted as absent:
\* the estimate is the given one when it is not zero and the derived one
\* otherwise
C34_PriceDiscountZeroDerived ==
    r_result # <<>> =>
        r_result[1].breakdown.price_discount =
            DiscountScore(Get(r_data.base_price, 0),
                          IF r_data.estimated_value \in {<<>>, <<0>>}
                          THEN DerivedEstimate(r_data)
                          ELSE Frac(r_data.estimated_value[1], 1))

\* 80 square metres in Milano at 200,000 without an estimate: 280,000 and 57.14
C34_Witness ==
    /\ r_result # <<>>
    /\ r_data.base_price = <<200000>> /\ r_data.estimated_value = <<>>
    /\ r_data.surface_sqm = <<80>> /\ r_data.city = "Milano"
    /\ r_data.property_type = <<"Appartamento">>
    /\ DerivedEstimate(r_data) = Frac(280000, 1)
    /\ r_result[1].breakdown.price_discount = 5714

----------------------------------------------------------------------------
(* Properties of the start of the secondary run *)

\* the fetch of the primary set has returned, and returned no record
PrimarySetEmpty == pc # "fc_start" /\ pvp_auctions = <<>>

\* C35: when the primary set fetched at the start of the secondary run is
\* empty (an empty answer, a failed fetch), the run is over: no request has
\* gone to the secondary source and nothing has been published
C35_EmptyPrimarySetEndsRun ==
    PrimarySetEmpty =>
        /\ pc = "done"
        /\ last_issue_age[FALLCOASTE] = -1
        /\ fc_last_request = <<>>
        /\ fc_log = <<>>
        /\ fc_published_ids = {}

\* a secondary run that ended on an empty primary set
C35_Witness ==
    /\ PrimarySetEmpty
    /\ pc = "done"
    /\ fc_reason = "no_pvp_auctions_found"
    /\ fc_max_pages > 0

----------------------------------------------------------------------------
(* Properties of the websocket registry *)

\* C36: a call of broadcast_to_user does not raise, and when it has returned
\* every connection of the user that was registered from its first line to
\* its last has been sent the message, whatever connects, disconnects and
\* other broadcasts ran while it awaited a send
C36_BroadcastCompletes ==
    \A task \in WsTasks :
        /\ ws_broadcast[task].pc # "raised"
        /\ ws_broadcast[task].missed = {}

\* the connections registered under a user
Registered(user_id) ==
    IF HasKey(ws_registry, user_id) THEN ws_registry[user_id][1] ELSE {}

\* C37: the registry maps no user to an empty set, holds only connections
\* that were accepted after their token was verified as that user's, and
\* holds no connection whose handler has ended
C37_RegistryClean ==
    \A user_id \in WsUsers :
        /\ ws_registry[user_id] # <<{}>>
        /\ \A websocket \in Registered(user_id) :
              /\ ws_handler[websocket].accepted
              /\ ws_handler[websocket].user_id = user_id
              /\ ws_handler[websocket].pc = "receiving"

\* after a connect, a disconnect and broadcasts: a handler has ended after
\* its connection was registered, a broadcast has returned and another has
\* raised, a user has connections and a connection whose handler still runs
\* was discarded by a broadcast
C37_Witness ==
    /\ \E websocket \in WsSockets :
          ws_handler[websocket].pc = "ended" /\ ws_handler[websocket].accepted
    /\ \E task \in WsTasks : ws_broadcast[task].pc = "done"
    /\ \E task \in WsTasks : ws_broadcast[task].pc = "raised"
    /\ \E user_id \in WsUsers : Registered(user_id) # {}
    /\ \E websocket \in WsSockets :
          /\ ws_handler[websocket].pc = "receiving"
          /\ websocket \notin Registered(ws_handler[websocket].user_id)

----------------------------------------------------------------------------
(* Properties of the preferences API *)

\* the row exists and belongs to another user
NotOwned(current_user, preference_id) ==
    /\ pref_table[preference_id] # <<>>
    /\ pref_table[preference_id][1].user_id # current_user

\* a get, an update or a delete of the row by the user
SingleRequest(current_user, preference_id) ==
    \/ get_preference(current_user, preference_id)
    \/ \E preference_data \in PrefUpdates :
          update_preference(current_user, preference_id, preference_data)
    \/ delete_preference(current_user, preference_id)

\* the rows of the table that belong to the user
OwnRows(current_user) ==
    {[id |-> id, row |-> pref_table[id][1]] :
        id \in {i \in PrefIds : pref_table[i] # <<>> /\ pref_table[i][1].user_id = current_user}}

\* C38: a get, update or delete of a preference by a user who does not own
\* it answers 404 and leaves the table as it is, and list answers the
\* caller's own preferences and no others
C38_PreferencesIsolated ==
    /\ [][\A current_user \in PrefUsers, preference_id \in PrefIds :
             NotOwned(current_user, preference_id)
                 /\ SingleRequest(current_user, preference_id)
             => pref_response'[1].status = 404 /\ pref_table' = pref_table]_vars
    /\ [][\A current_user \in PrefUsers :
             list_preferences(current_user)
             => {pref_response'[1].body[i] : i \in 1..Len(pref_response'[1].body)}
                    = OwnRows(current_user)]_vars

\* an update of another user's preference was answered 404 while both users
\* have a preference
C38_Witness ==
    /\ pref_response # <<>>
    /\ pref_response[1].op = "update"
    /\ pref_response[1].status = 404
    /\ NotOwned(pref_response[1].user_id, pref_response[1].id)
    /\ \A current_user \in PrefUsers : OwnRows(current_user) # {}

====
